---------------------------- MODULE Spec2Model ----------------------------
(***************************************************************************)
(* A model of the cpp-dataframe library (src/dataframe.h, src/date_utils,  *)
(* src/stats): the DataFrame<IndexT> value, its factories, its in-place    *)
(* mutators add_column and set_index_name, its transform / selection       *)
(* operations and the text and binary codecs.                              *)
(*                                                                         *)
(* Representation.                                                         *)
(*  - A std::string is a sequence of one-character strings.                *)
(*  - A double is an exact rational [n, d] in lowest terms with d > 0;     *)
(*    NaN is [n |-> 0, d |-> 0] and +/-infinity is [n |-> +/-1, d |-> 0].  *)
(*    Rounding of IEEE-754 arithmetic is outside the model: the operations *)
(*    are only applied where their results are exact.                      *)
(*  - A DataFrame<IndexT> is a record [itype, columns, index, data,        *)
(*    index_name]; itype names the template argument IndexT.               *)
(*  - A call returns [ok, t, err]: the returned DataFrame, or the thrown   *)
(*    exception's message.                                                 *)
(***************************************************************************)
EXTENDS Integers, Sequences, FiniteSets, TLC

VARIABLES
  df,      \* the receiver object (a DataFrame<IndexT> variable of the caller)
  arg,     \* the arguments of the last call; between two calls the operand
           \* chosen for a binary combine, NoTable when none is chosen
  out,     \* the DataFrame returned by the last call, NoTable if it threw
  err,     \* the message of the exception thrown by the last call, "" if none
  last,    \* the name of the last operation called, "" between two calls
  chain,   \* how many returned DataFrames have been assigned back to df
  csv,     \* the characters of a text stream (written by to_csv, read by from_csv)
  stream   \* the bytes of a binary stream (written by to_binary, read by from_binary)

vars == <<df, arg, out, err, last, chain, csv, stream>>

(***************************************************************************)
(* Bounds of the model.                                                    *)
(***************************************************************************)
MaxRows == 2      \* rows of the tables the factories are given
MaxCols == 2      \* columns of the tables the factories are given and add_column extends
MaxChain == 1     \* assignments of a returned table back to the receiver
MaxKept == 1      \* cells of a returned table that is assigned back
MaxSeries == 3    \* rows (columns) of the one-column (one-row) tables of SpecSeries

(***************************************************************************)
(* double                                                                  *)
(***************************************************************************)
NaN == [n |-> 0, d |-> 0]

\* a finite double for which the model has no exact rational (an irrational
\* square root, logarithm or exponential); it is never stored in a table
Unrep == [n |-> 0, d |-> -1]

Abs(a) == IF a < 0 THEN -a ELSE a

RECURSIVE Gcd(_, _)
Gcd(a, b) == IF b = 0 THEN a ELSE Gcd(b, a % b)

\* n/d (d # 0) as a double of the model, in lowest terms
Rat(n, d) ==
  LET g == Gcd(Abs(n), Abs(d))
      s == IF d < 0 THEN -1 ELSE 1
  IN  [n |-> (s * n) \div g, d |-> (s * d) \div g]

Num(k) == [n |-> k, d |-> 1]

Inf(sign) == [n |-> sign, d |-> 0]

\* !(v == v), std::isnan(v)
isnan(x) == x.d = 0 /\ x.n = 0

isinf(x) == x.d = 0 /\ x.n # 0

unrep(x) == x.d < 0

\* a == b on doubles: false as soon as one side is NaN
deq(a, b) == ~isnan(a) /\ ~isnan(b) /\ ~unrep(a) /\ ~unrep(b) /\ a = b

\* a < b on doubles: false as soon as one side is NaN
dlt(a, b) ==
  /\ ~isnan(a) /\ ~isnan(b) /\ ~unrep(a) /\ ~unrep(b)
  /\ IF isinf(a) /\ isinf(b) THEN a.n < b.n ELSE a.n * b.d < b.n * a.d

dgt(a, b) == dlt(b, a)

dle(a, b) == dlt(a, b) \/ deq(a, b)

dneg(a) == [n |-> -a.n, d |-> a.d]

dadd(a, b) ==
  IF isnan(a) \/ isnan(b) THEN NaN
  ELSE IF unrep(a) \/ unrep(b) THEN Unrep
  ELSE IF isinf(a) /\ isinf(b) THEN (IF a = b THEN a ELSE NaN)
  ELSE IF isinf(a) THEN a
  ELSE IF isinf(b) THEN b
  ELSE Rat(a.n * b.d + b.n * a.d, a.d * b.d)

dsub(a, b) == dadd(a, dneg(b))

dmul(a, b) ==
  IF isnan(a) \/ isnan(b) THEN NaN
  ELSE IF unrep(a) \/ unrep(b) THEN Unrep
  ELSE IF isinf(a) \/ isinf(b)
       THEN (IF a.n = 0 \/ b.n = 0 THEN NaN ELSE Inf(IF (a.n < 0) = (b.n < 0) THEN 1 ELSE -1))
  ELSE Rat(a.n * b.n, a.d * b.d)

ddiv(a, b) ==
  IF isnan(a) \/ isnan(b) THEN NaN
  ELSE IF unrep(a) \/ unrep(b) THEN Unrep
  ELSE IF isinf(b) THEN (IF isinf(a) THEN NaN ELSE Num(0))
  ELSE IF b.n = 0 THEN (IF a.n = 0 THEN NaN ELSE Inf(IF a.n < 0 THEN -1 ELSE 1))
  ELSE IF isinf(a) THEN Inf(IF (a.n < 0) = (b.n < 0) THEN 1 ELSE -1)
  ELSE Rat(a.n * b.d, a.d * b.n)

\* std::sqrt
dsqrt(x) ==
  IF isnan(x) \/ unrep(x) THEN x
  ELSE IF x.n < 0 THEN NaN
  ELSE IF isinf(x) THEN x
  ELSE LET root(k) == IF \E r \in 0..k : r * r = k
                       THEN CHOOSE r \in 0..k : r * r = k ELSE -1
       IN  IF root(x.n) >= 0 /\ root(x.d) >= 0 THEN Rat(root(x.n), root(x.d))
           ELSE Unrep

\* std::log
dlog(x) ==
  IF isnan(x) \/ unrep(x) THEN x
  ELSE IF x.n < 0 THEN NaN
  ELSE IF x.n = 0 THEN Inf(-1)
  ELSE IF isinf(x) THEN x
  ELSE IF x = Num(1) THEN Num(0)
  ELSE Unrep

\* std::exp
dexp(x) ==
  IF isnan(x) \/ unrep(x) THEN x
  ELSE IF isinf(x) THEN (IF x.n > 0 THEN x ELSE Num(0))
  ELSE IF x.n = 0 THEN Num(1)
  ELSE Unrep

RECURSIVE IPow(_, _)
IPow(x, k) == IF k = 0 THEN Num(1) ELSE dmul(x, IPow(x, k - 1))

\* std::pow(v, exponent)
dpow(x, e) ==
  IF e = Num(0) \/ x = Num(1) THEN Num(1)
  ELSE IF isnan(x) \/ isnan(e) THEN NaN
  ELSE IF unrep(x) \/ unrep(e) THEN Unrep
  ELSE IF isinf(e)
       THEN (IF Abs(x.n) = x.d THEN Num(1)
             ELSE IF (Abs(x.n) > x.d \/ isinf(x)) = (e.n > 0) THEN Inf(1)
             ELSE Num(0))
  ELSE IF e.d = 1
       THEN (IF e.n > 0 THEN IPow(x, e.n) ELSE ddiv(Num(1), IPow(x, -e.n)))
  ELSE IF isinf(x) THEN (IF e.n > 0 THEN Inf(1) ELSE Num(0))
  ELSE IF x.n < 0 THEN NaN
  ELSE IF x.n = 0 THEN (IF e.n > 0 THEN Num(0) ELSE Inf(1))
  ELSE IF e.d = 2
       THEN (IF e.n > 0 THEN dsqrt(IPow(x, e.n))
             ELSE ddiv(Num(1), dsqrt(IPow(x, -e.n))))
  ELSE Unrep

(***************************************************************************)
(* DataFrame<IndexT>                                                       *)
(***************************************************************************)
\* the default member initializer of index_name_
INDEX == <<"i", "n", "d", "e", "x">>

\* a default-constructed DataFrame<IndexT>
DataFrame(it) ==
  [itype |-> it, columns |-> <<>>, index |-> <<>>, data |-> <<>>,
   index_name |-> INDEX]

\* no DataFrame: what a call that threw leaves its caller with
NoTable ==
  [itype |-> "none", columns |-> <<>>, index |-> <<>>, data |-> <<>>,
   index_name |-> <<>>]

rows(t) == Len(t.data)

cols(t) == Len(t.columns)

Ok(t) == [ok |-> TRUE, t |-> t, err |-> ""]

Fail(msg) == [ok |-> FALSE, t |-> NoTable, err |-> msg]

\* std::find(v.begin(), v.end(), x) != v.end()
Contains(v, x) == \E i \in 1..Len(v) : v[i] = x

from_vectors(it, indices, columns, data) ==
  IF columns = <<>>
  THEN Fail("dataframe::from_vectors: no columns provided")
  ELSE IF Len(indices) # Len(data)
  THEN Fail("dataframe::from_vectors: index count must match row count")
  ELSE IF \E i \in 1..Len(columns) : columns[i] = <<>>
  THEN Fail("dataframe::from_vectors: column name cannot be empty")
  ELSE IF \E r \in 1..Len(data) : Len(data[r]) # Len(columns)
  THEN Fail("dataframe::from_vectors: row size does not match column count")
  ELSE Ok([itype |-> it, columns |-> columns, index |-> indices,
           data |-> data, index_name |-> INDEX])

\* an add_column that appends the name before it checks the value count
add_column_wrong_order(t, name, values) ==
  LET pushed == [t EXCEPT !.columns = Append(t.columns, name)]
  IN  IF Contains(t.columns, name)
      THEN [ok |-> FALSE, t |-> t, err |-> "dataframe::add_column: column already exists"]
      ELSE IF rows(t) = 0
      THEN IF values # <<>>
           THEN [ok |-> FALSE, t |-> pushed,
                 err |-> "dataframe::add_column: cannot add data to an empty dataframe"]
           ELSE [ok |-> TRUE, t |-> pushed, err |-> ""]
      ELSE IF Len(values) # rows(t)
      THEN [ok |-> FALSE, t |-> pushed, err |-> "dataframe::add_column: value count mismatch"]
      ELSE [ok |-> TRUE,
            t |-> [pushed EXCEPT !.data =
                     [r \in 1..rows(t) |-> Append(t.data[r], values[r])]],
            err |-> ""]

\* add_column changes *this: the result's t is the receiver after the call,
\* also when the call throws
add_column(t, name, values) ==
  IF Contains(t.columns, name)
  THEN [ok |-> FALSE, t |-> t, err |-> "dataframe::add_column: column already exists"]
  ELSE IF rows(t) = 0
  THEN IF values # <<>>
       THEN [ok |-> FALSE, t |-> t,
             err |-> "dataframe::add_column: cannot add data to an empty dataframe"]
       ELSE [ok |-> TRUE, t |-> [t EXCEPT !.columns = Append(t.columns, name)], err |-> ""]
  ELSE IF Len(values) # rows(t)
  THEN [ok |-> FALSE, t |-> t, err |-> "dataframe::add_column: value count mismatch"]
  ELSE [ok |-> TRUE,
        t |-> [t EXCEPT !.columns = Append(t.columns, name),
                        !.data = [r \in 1..rows(t) |-> Append(t.data[r], values[r])]],
        err |-> ""]

(***************************************************************************)
(* Transform engine                                                        *)
(***************************************************************************)
\* out.data_ = data_, then value = func(value) for every value of every row
MapCells(t, F(_)) ==
  [t EXCEPT !.data =
     [r \in 1..rows(t) |-> [c \in 1..Len(t.data[r]) |-> F(t.data[r][c])]]]

\* apply_scalar, with the exception func may throw on a cell
apply_scalar(t, F(_), Throws(_), msg) ==
  IF \E r \in 1..rows(t) : \E c \in 1..Len(t.data[r]) : Throws(t.data[r][c])
  THEN Fail(msg)
  ELSE Ok(MapCells(t, F))

apply_binary(t, o, F(_, _), Throws(_, _), name, msg) ==
  IF rows(t) # rows(o) \/ cols(t) # cols(o)
  THEN Fail("dataframe::" \o name \o ": shape mismatch")
  ELSE IF t.columns # o.columns
  THEN Fail("dataframe::" \o name \o ": column mismatch")
  ELSE IF t.index # o.index
  THEN Fail("dataframe::" \o name \o ": index mismatch")
  ELSE IF \E r \in 1..rows(t) : \E c \in 1..cols(t) : Throws(t.data[r][c], o.data[r][c])
  THEN Fail(msg)
  ELSE Ok([t EXCEPT !.data =
             [r \in 1..rows(t) |->
                [c \in 1..cols(t) |-> F(t.data[r][c], o.data[r][c])]]])

add_scalar(t, value) ==
  LET f(v) == dadd(v, value)
      never(v) == FALSE
  IN  apply_scalar(t, f, never, "")

subtract_scalar(t, value) ==
  LET f(v) == dsub(v, value)
      never(v) == FALSE
  IN  apply_scalar(t, f, never, "")

multiply_scalar(t, value) ==
  LET f(v) == dmul(v, value)
      never(v) == FALSE
  IN  apply_scalar(t, f, never, "")

divide_scalar(t, value) ==
  IF deq(value, Num(0))
  THEN Fail("dataframe::divide: division by zero")
  ELSE LET f(v) == ddiv(v, value)
           never(v) == FALSE
       IN  apply_scalar(t, f, never, "")

add(t, o) ==
  LET never(a, b) == FALSE IN apply_binary(t, o, dadd, never, "add", "")

\* a subtract that compares the column names before the row counts
subtract_columns_first(t, o) ==
  LET never(a, b) == FALSE
  IN  IF cols(t) = cols(o) /\ t.columns # o.columns
      THEN Fail("dataframe::subtract: column mismatch")
      ELSE apply_binary(t, o, dsub, never, "subtract", "")

subtract(t, o) ==
  LET never(a, b) == FALSE IN apply_binary(t, o, dsub, never, "subtract", "")

multiply(t, o) ==
  LET never(a, b) == FALSE IN apply_binary(t, o, dmul, never, "multiply", "")

\* a divide that throws for 0 / 0 only
divide_zero_numerator_only(t, o) ==
  LET throws(a, b) == deq(b, Num(0)) /\ deq(a, Num(0))
  IN  apply_binary(t, o, ddiv, throws, "divide",
                   "dataframe::divide: division by zero element")

divide(t, o) ==
  LET throws(a, b) == deq(b, Num(0))
  IN  apply_binary(t, o, ddiv, throws, "divide",
                   "dataframe::divide: division by zero element")

log_elements(t) ==
  LET f(v) == IF isnan(v) THEN NaN ELSE dlog(v)
      throws(v) == ~isnan(v) /\ ~dgt(v, Num(0))
  IN  apply_scalar(t, f, throws,
                   "dataframe::log_elements: non-positive value encountered")

exp_elements(t) ==
  LET never(v) == FALSE IN apply_scalar(t, dexp, never, "")

\* power(double) and power_int(int): both call std::pow(v, exponent)
power(t, exponent) ==
  LET f(v) == dpow(v, exponent)
      never(v) == FALSE
  IN  apply_scalar(t, f, never, "")

\* index_.begin() + 1 .. index_.end(), for the three row-to-row changes
Changes(t, F(_, _), Throws(_, _), need, msg) ==
  IF rows(t) < 2
  THEN Fail(need)
  ELSE IF \E r \in 2..rows(t) : \E c \in 1..cols(t) :
            Throws(t.data[r - 1][c], t.data[r][c])
  THEN Fail(msg)
  ELSE Ok([t EXCEPT !.index = Tail(t.index),
                    !.data = [r \in 1..(rows(t) - 1) |->
                                [c \in 1..cols(t) |->
                                   F(t.data[r][c], t.data[r + 1][c])]]])

\* differences taken from the first row instead of the row before
differences_from_first(t) ==
  IF rows(t) < 2
  THEN Fail("dataframe::differences: need at least two rows")
  ELSE Ok([t EXCEPT !.index = Tail(t.index),
                    !.data = [r \in 1..(rows(t) - 1) |->
                                [c \in 1..cols(t) |->
                                   dsub(t.data[r + 1][c], t.data[1][c])]]])

differences(t) ==
  LET f(prev, curr) == dsub(curr, prev)
      never(prev, curr) == FALSE
  IN  Changes(t, f, never,
              "dataframe::differences: need at least two rows", "")

log_changes(t) ==
  LET f(prev, curr) == dsub(dlog(curr), dlog(prev))
      throws(prev, curr) == ~dgt(prev, Num(0)) \/ ~dgt(curr, Num(0))
  IN  Changes(t, f, throws,
              "dataframe::log_changes: need at least two rows",
              "dataframe::log_changes: non-positive value encountered")

\* proportional changes that also refuse a zero in the later row of a pair
proportional_changes_any_zero(t) ==
  LET f(prev, curr) == ddiv(dsub(curr, prev), prev)
      throws(prev, curr) == deq(prev, Num(0)) \/ deq(curr, Num(0))
  IN  Changes(t, f, throws,
              "dataframe::proportional_changes: need at least two rows",
              "dataframe::proportional_changes: zero value encountered")

proportional_changes(t) ==
  LET f(prev, curr) == ddiv(dsub(curr, prev), prev)
      throws(prev, curr) == deq(prev, Num(0))
  IN  Changes(t, f, throws,
              "dataframe::proportional_changes: need at least two rows",
              "dataframe::proportional_changes: zero value encountered")

RECURSIVE SumSeq(_)
SumSeq(s) == IF s = <<>> THEN Num(0) ELSE dadd(Head(s), SumSeq(Tail(s)))

\* the non-missing values of column c, in row order
ColumnValues(t, c) ==
  LET F[r \in 0..rows(t)] ==
        IF r = 0 THEN <<>>
        ELSE IF isnan(t.data[r][c]) THEN F[r - 1]
        ELSE Append(F[r - 1], t.data[r][c])
  IN  F[rows(t)]

standardize(t) ==
  LET vals(c) == ColumnValues(t, c)
      count(c) == Len(vals(c))
      mean(c) == IF count(c) > 0 THEN ddiv(SumSeq(vals(c)), Num(count(c))) ELSE NaN
      accum(c) == SumSeq([i \in 1..count(c) |->
                            dmul(dsub(vals(c)[i], mean(c)), dsub(vals(c)[i], mean(c)))])
      var(c) == ddiv(accum(c), Num(count(c) - 1))
      sd(c) == IF count(c) > 1
               THEN (IF dgt(var(c), Num(0)) THEN dsqrt(var(c)) ELSE NaN)
               ELSE NaN
      cell(v, c) == IF isnan(v) \/ isnan(mean(c)) \/ isnan(sd(c)) \/ deq(sd(c), Num(0))
                    THEN NaN
                    ELSE ddiv(dsub(v, mean(c)), sd(c))
  IN  Ok([t EXCEPT !.data =
            [r \in 1..rows(t) |-> [c \in 1..cols(t) |-> cell(t.data[r][c], c)]]])

RECURSIVE MinSeq(_, _)
MinSeq(s, acc) ==
  IF s = <<>> THEN acc
  ELSE MinSeq(Tail(s), IF dlt(Head(s), acc) THEN Head(s) ELSE acc)

RECURSIVE MaxSeq(_, _)
MaxSeq(s, acc) ==
  IF s = <<>> THEN acc
  ELSE MaxSeq(Tail(s), IF dlt(acc, Head(s)) THEN Head(s) ELSE acc)

normalize(t) ==
  LET min(c) == MinSeq(ColumnValues(t, c), Inf(1))
      max(c) == MaxSeq(ColumnValues(t, c), Inf(-1))
      spread(c) == dsub(max(c), min(c))
      cell(v, c) == IF isnan(v) THEN NaN
                    ELSE IF isinf(min(c)) \/ isinf(max(c)) THEN NaN
                    ELSE IF dgt(spread(c), Num(0)) THEN ddiv(dsub(v, min(c)), spread(c))
                    ELSE Num(0)
  IN  Ok([t EXCEPT !.data =
            [r \in 1..rows(t) |-> [c \in 1..cols(t) |-> cell(t.data[r][c], c)]]])

(***************************************************************************)
(* Selection and ordering.  Positions are 1-based here, 0-based in the     *)
(* source.                                                                 *)
(***************************************************************************)
\* the first position of x in v, 0 when v has no x (std::find == end())
Find(v, x) ==
  IF Contains(v, x) THEN CHOOSE i \in 1..Len(v) : v[i] = x /\ \A j \in 1..(i - 1) : v[j] # x
  ELSE 0

select_rows_by_positions(t, positions) ==
  IF \E i \in 1..Len(positions) : positions[i] > rows(t)
  THEN Fail("dataframe::select_rows: position out of bounds")
  ELSE Ok([t EXCEPT !.index = [i \in 1..Len(positions) |-> t.index[positions[i]]],
                    !.data = [i \in 1..Len(positions) |-> t.data[positions[i]]]])

\* a column selection that picks the names and leaves the rows whole
select_columns_by_positions_names_only(t, positions) ==
  IF \E i \in 1..Len(positions) : positions[i] > cols(t)
  THEN Fail("dataframe::select_columns: position out of bounds")
  ELSE Ok([t EXCEPT !.columns = [i \in 1..Len(positions) |-> t.columns[positions[i]]]])

select_columns_by_positions(t, positions) ==
  IF \E i \in 1..Len(positions) : positions[i] > cols(t)
  THEN Fail("dataframe::select_columns: position out of bounds")
  ELSE Ok([t EXCEPT !.columns = [i \in 1..Len(positions) |-> t.columns[positions[i]]],
                    !.data = [r \in 1..rows(t) |->
                                [i \in 1..Len(positions) |-> t.data[r][positions[i]]]]])

\* a row selection that takes the last row with the requested index value
select_rows_last_match(t, values) ==
  IF \E i \in 1..Len(values) : Find(t.index, values[i]) = 0
  THEN Fail("dataframe::select_rows: requested index not found")
  ELSE select_rows_by_positions(t,
         [i \in 1..Len(values) |->
            CHOOSE p \in 1..rows(t) :
              t.index[p] = values[i] /\ \A q \in (p + 1)..rows(t) : t.index[q] # values[i]])

select_rows(t, values) ==
  IF \E i \in 1..Len(values) : Find(t.index, values[i]) = 0
  THEN Fail("dataframe::select_rows: requested index not found")
  ELSE select_rows_by_positions(t, [i \in 1..Len(values) |-> Find(t.index, values[i])])

select_columns(t, names) ==
  IF \E i \in 1..Len(names) : Find(t.columns, names[i]) = 0
  THEN Fail("dataframe::select_columns: column not found")
  ELSE select_columns_by_positions(t, [i \in 1..Len(names) |-> Find(t.columns, names[i])])

\* the positions p of s, ascending, with Keep(p)
Positions(n, Keep(_)) ==
  LET F[p \in 0..n] ==
        IF p = 0 THEN <<>>
        ELSE IF Keep(p) THEN Append(F[p - 1], p) ELSE F[p - 1]
  IN  F[n]

\* a range search that takes start as the lower and end as the upper bound
find_row_positions_in_range_as_given(t, start, end, inclusive_end) ==
  LET keep(i) == /\ t.index[i] >= start
                 /\ IF inclusive_end THEN t.index[i] <= end ELSE t.index[i] < end
  IN  Positions(rows(t), keep)

find_row_positions_in_range(t, start, end, inclusive_end) ==
  LET lo == IF end < start THEN end ELSE start
      hi == IF end < start THEN start ELSE end
      keep(i) == /\ t.index[i] >= lo
                 /\ IF inclusive_end THEN t.index[i] <= hi ELSE t.index[i] < hi
  IN  Positions(rows(t), keep)

\* only instantiated for an arithmetic IndexT
slice_rows_range(t, start, end, inclusive_end) ==
  select_rows_by_positions(t, find_row_positions_in_range(t, start, end, inclusive_end))

head_rows(t, count) ==
  IF count = 0 THEN select_rows_by_positions(t, <<>>)
  ELSE IF count >= rows(t) THEN Ok(t)
  ELSE select_rows_by_positions(t, [i \in 1..count |-> i])

tail_rows(t, count) ==
  IF count = 0 THEN select_rows_by_positions(t, <<>>)
  ELSE IF count >= rows(t) THEN Ok(t)
  ELSE select_rows_by_positions(t, [i \in 1..count |-> rows(t) - count + i])

head_columns(t, count) ==
  IF count = 0 THEN select_columns_by_positions(t, <<>>)
  ELSE IF count >= cols(t) THEN Ok(t)
  ELSE select_columns_by_positions(t, [i \in 1..count |-> i])

\* a column tail that counts from the first column
tail_columns_from_front(t, count) ==
  IF count = 0 THEN select_columns_by_positions(t, <<>>)
  ELSE IF count >= cols(t) THEN Ok(t)
  ELSE select_columns_by_positions(t, [i \in 1..count |-> i])

tail_columns(t, count) ==
  IF count = 0 THEN select_columns_by_positions(t, <<>>)
  ELSE IF count >= cols(t) THEN Ok(t)
  ELSE select_columns_by_positions(t, [i \in 1..count |-> cols(t) - count + i])

\* the comparator of both sorts: lhs, rhs are positions, Value gives their key
comparator(lhs, rhs, Value(_), ascending) ==
  LET left_nan == isnan(Value(lhs))
      right_nan == isnan(Value(rhs))
  IN  IF left_nan \/ right_nan
      THEN IF left_nan /\ right_nan THEN lhs < rhs
           ELSE IF ascending THEN ~left_nan /\ right_nan
           ELSE left_nan /\ ~right_nan
      ELSE IF ascending THEN dlt(Value(lhs), Value(rhs))
           ELSE dgt(Value(lhs), Value(rhs))

\* std::stable_sort of the positions 1..n: each position is put in front of
\* the first already placed position it compares less than
stable_sort(n, Value(_), ascending) ==
  LET Insert(s, x) ==
        LET k == IF \E i \in 1..Len(s) : comparator(x, s[i], Value, ascending)
                 THEN CHOOSE i \in 1..Len(s) :
                        /\ comparator(x, s[i], Value, ascending)
                        /\ \A j \in 1..(i - 1) : ~comparator(x, s[j], Value, ascending)
                 ELSE Len(s) + 1
        IN  SubSeq(s, 1, k - 1) \o <<x>> \o SubSeq(s, k, Len(s))
      F[p \in 0..n] == IF p = 0 THEN <<>> ELSE Insert(F[p - 1], p)
  IN  F[n]

\* a row sort whose descending order is the ascending order read backwards
sort_rows_by_column_backwards(t, column_name, ascending) ==
  IF cols(t) = 0
  THEN Fail("dataframe::sort_rows_by_column: no columns to sort by")
  ELSE IF Find(t.columns, column_name) = 0
  THEN Fail("dataframe::select_columns: column not found")
  ELSE LET column_index == Find(t.columns, column_name)
           key(r) == t.data[r][column_index]
           up == stable_sort(rows(t), key, TRUE)
           order == IF ascending THEN up ELSE [i \in 1..rows(t) |-> up[rows(t) + 1 - i]]
       IN  Ok([t EXCEPT !.index = [i \in 1..rows(t) |-> t.index[order[i]]],
                        !.data = [i \in 1..rows(t) |-> t.data[order[i]]]])

sort_rows_by_column(t, column_name, ascending) ==
  IF cols(t) = 0
  THEN Fail("dataframe::sort_rows_by_column: no columns to sort by")
  ELSE IF Find(t.columns, column_name) = 0
  THEN Fail("dataframe::select_columns: column not found")
  ELSE LET column_index == Find(t.columns, column_name)
           key(r) == t.data[r][column_index]
           order == stable_sort(rows(t), key, ascending)
       IN  Ok([t EXCEPT !.index = [i \in 1..rows(t) |-> t.index[order[i]]],
                        !.data = [i \in 1..rows(t) |-> t.data[order[i]]]])

sort_columns_by_row(t, index_value, ascending) ==
  IF cols(t) = 0
  THEN Fail("dataframe::sort_columns_by_row: no columns to sort")
  ELSE IF rows(t) = 0
  THEN Fail("dataframe::sort_columns_by_row: no rows available")
  ELSE IF Find(t.index, index_value) = 0
  THEN Fail("dataframe::select_rows: index not found")
  ELSE LET row_position == Find(t.index, index_value)
           key(c) == t.data[row_position][c]
           order == stable_sort(cols(t), key, ascending)
       IN  Ok([t EXCEPT !.columns = [i \in 1..cols(t) |-> t.columns[order[i]]],
                        !.data = [r \in 1..rows(t) |->
                                    [i \in 1..cols(t) |-> t.data[r][order[i]]]]])

(***************************************************************************)
(* Rolling windows, smoothing, resampling, missing-value removal           *)
(***************************************************************************)
\* sums[c], sums_sq[c] and valid_counts[c] after the loop body's two updates
\* at row r: the value of row r added, the value of row r - window removed
Accumulate(t, window, c) ==
  LET F[r \in 0..rows(t)] ==
        IF r = 0 THEN [sums |-> Num(0), sums_sq |-> Num(0), valid_counts |-> 0]
        ELSE LET value == t.data[r][c]
                 in == IF isnan(value) THEN F[r - 1]
                       ELSE [sums |-> dadd(F[r - 1].sums, value),
                             sums_sq |-> dadd(F[r - 1].sums_sq, dmul(value, value)),
                             valid_counts |-> F[r - 1].valid_counts + 1]
             IN  IF r > window /\ ~isnan(t.data[r - window][c])
                 THEN LET old == t.data[r - window][c]
                      IN  [sums |-> dsub(in.sums, old),
                           sums_sq |-> dsub(in.sums_sq, dmul(old, old)),
                           valid_counts |-> in.valid_counts - 1]
                 ELSE in
  IN  F

\* the frame shared by rolling_mean, rolling_std and rolling_rms
Rolling(t, window, Result(_), name) ==
  IF window = 0
  THEN Fail("dataframe::" \o name \o ": window must be positive")
  ELSE IF window > rows(t)
  THEN Fail("dataframe::" \o name \o ": window exceeds row count")
  ELSE Ok([t EXCEPT !.index = SubSeq(t.index, window, Len(t.index)),
                    !.data = [i \in 1..(rows(t) - window + 1) |->
                                [c \in 1..cols(t) |->
                                   Result(Accumulate(t, window, c)[i + window - 1])]]])

rolling_mean(t, window) ==
  LET result(a) == IF a.valid_counts = window THEN ddiv(a.sums, Num(window)) ELSE NaN
  IN  Rolling(t, window, result, "rolling_mean")

rolling_std(t, window) ==
  LET result(a) ==
        IF a.valid_counts # window THEN NaN
        ELSE IF window = 1 THEN Num(0)
        ELSE LET mean == ddiv(a.sums, Num(window))
                 numerator == dsub(a.sums_sq, dmul(a.sums, mean))
                 variance == ddiv(numerator, Num(window - 1))
             IN  IF dgt(variance, Num(0)) THEN dsqrt(variance) ELSE Num(0)
  IN  Rolling(t, window, result, "rolling_std")

rolling_rms(t, window) ==
  LET result(a) == IF a.valid_counts = window
                   THEN dsqrt(ddiv(a.sums_sq, Num(window)))
                   ELSE NaN
  IN  Rolling(t, window, result, "rolling_rms")

\* a moving average that starts again after every NaN cell
exponential_moving_average_restarted(t, alpha) ==
  IF ~dgt(alpha, Num(0)) \/ ~dlt(alpha, Num(1))
  THEN Fail("dataframe::exponential_moving_average: alpha must be in (0,1)")
  ELSE LET ema(c) ==
             LET F[r \in 0..rows(t)] ==
                   IF r = 0 \/ isnan(t.data[r][c]) THEN NaN
                   ELSE IF isnan(F[r - 1]) THEN t.data[r][c]
                   ELSE dadd(dmul(alpha, t.data[r][c]), dmul(dsub(Num(1), alpha), F[r - 1]))
             IN  F
       IN  Ok([t EXCEPT !.data =
                 [r \in 1..rows(t) |-> [c \in 1..cols(t) |-> ema(c)[r]]]])

exponential_moving_average(t, alpha) ==
  IF ~dgt(alpha, Num(0)) \/ ~dlt(alpha, Num(1))
  THEN Fail("dataframe::exponential_moving_average: alpha must be in (0,1)")
  ELSE LET ema(c) ==
             LET F[r \in 0..rows(t)] ==
                   IF r = 0 THEN [ema |-> NaN, has_ema |-> FALSE]
                   ELSE LET value == t.data[r][c]
                        IN  IF isnan(value) THEN F[r - 1]
                            ELSE IF ~F[r - 1].has_ema
                            THEN [ema |-> value, has_ema |-> TRUE]
                            ELSE [ema |-> dadd(dmul(alpha, value),
                                               dmul(dsub(Num(1), alpha), F[r - 1].ema)),
                                  has_ema |-> TRUE]
             IN  F
       IN  Ok([t EXCEPT !.data =
                 [r \in 1..rows(t) |->
                    [c \in 1..cols(t) |->
                       IF isnan(t.data[r][c]) THEN NaN ELSE ema(c)[r].ema]]])

\* a resample that labels the rows drawn with the index in its own order
resample_rows_index_in_order(t, sample_size, reset_index, picks) ==
  IF rows(t) = 0
  THEN Fail("dataframe::resample_rows: no rows to sample")
  ELSE LET integral == t.itype = "int"
       IN  Ok([t EXCEPT
                 !.index_name =
                   IF reset_index /\ integral
                   THEN <<"r", "e", "s", "a", "m", "p", "l", "e", "_", "i", "n", "d", "e", "x">>
                   ELSE t.index_name,
                 !.index = [i \in 1..Len(picks) |->
                              IF integral /\ reset_index THEN i - 1 ELSE t.index[i]],
                 !.data = [i \in 1..Len(picks) |-> t.data[picks[i]]]])

\* picks: what dist(rng) returns at each of the sample_size draws (1-based)
resample_rows(t, sample_size, reset_index, picks) ==
  IF rows(t) = 0
  THEN Fail("dataframe::resample_rows: no rows to sample")
  ELSE LET integral == t.itype = "int"
       IN  Ok([t EXCEPT
                 !.index_name =
                   IF reset_index /\ integral
                   THEN <<"r", "e", "s", "a", "m", "p", "l", "e", "_", "i", "n", "d", "e", "x">>
                                ELSE t.index_name,
                 !.index = [i \in 1..Len(picks) |->
                              IF integral /\ reset_index THEN i - 1
                              ELSE t.index[picks[i]]],
                 !.data = [i \in 1..Len(picks) |-> t.data[picks[i]]]])

remove_rows_with_nan(t) ==
  LET keep(r) == ~\E c \in 1..Len(t.data[r]) : isnan(t.data[r][c])
  IN  select_rows_by_positions(t, Positions(rows(t), keep))

remove_columns_with_nan(t) ==
  LET keep(c) == ~\E r \in 1..rows(t) : isnan(t.data[r][c])
  IN  select_columns_by_positions(t, Positions(cols(t), keep))

(***************************************************************************)
(* Aggregations (src/stats.cpp and the matrix methods)                     *)
(***************************************************************************)
\* std::sort(values.begin(), values.end()) on doubles
std_sort(s) ==
  LET Insert(v, x) ==
        LET k == IF \E i \in 1..Len(v) : dlt(x, v[i])
                 THEN CHOOSE i \in 1..Len(v) :
                        dlt(x, v[i]) /\ \A j \in 1..(i - 1) : ~dlt(x, v[j])
                 ELSE Len(v) + 1
        IN  SubSeq(v, 1, k - 1) \o <<x>> \o SubSeq(v, k, Len(v))
      F[p \in 0..Len(s)] == IF p = 0 THEN <<>> ELSE Insert(F[p - 1], s[p])
  IN  F[Len(s)]

\* nth_element puts the order statistic of rank mid at mid, no larger value
\* before it: values[mid] and the maximum of the lower part are read off the
\* sorted sequence
\* a median that takes the upper of the two central values of an even count
compute_median_upper(values) ==
  IF values = <<>> THEN NaN ELSE std_sort(values)[Len(values) \div 2 + 1]

compute_median(values) ==
  LET pick(sorted, mid) ==
        IF Len(values) % 2 = 0
        THEN dmul(Rat(1, 2), dadd(sorted[mid + 1], sorted[mid]))
        ELSE sorted[mid + 1]
  IN  IF values = <<>> THEN NaN ELSE pick(std_sort(values), Len(values) \div 2)

mean(x) == IF Len(x) <= 0 THEN NaN ELSE ddiv(SumSeq(x), Num(Len(x)))

\* sum over i of (x[i] - m)^k
Moment(x, m, k) == SumSeq([i \in 1..Len(x) |-> IPow(dsub(x[i], m), k)])

stdev(x) ==
  LET root(v) == IF ~dle(Num(0), v) THEN NaN ELSE dsqrt(v)
  IN  IF Len(x) <= 1 THEN NaN
      ELSE root(ddiv(Moment(x, mean(x), 2), Num(Len(x) - 1)))

skew(x) ==
  LET ratio(m2, m3) == IF ~dgt(m2, Num(0)) THEN NaN ELSE ddiv(m3, dpow(m2, Rat(3, 2)))
      moments(m) == ratio(ddiv(Moment(x, m, 2), Num(Len(x))),
                          ddiv(Moment(x, m, 3), Num(Len(x))))
  IN  IF Len(x) <= 2 THEN NaN ELSE moments(mean(x))

excess_kurtosis(x) ==
  LET ratio(m2, m4) ==
        IF ~dgt(m2, Num(0)) THEN NaN ELSE dsub(ddiv(m4, dmul(m2, m2)), Num(3))
      moments(m) == ratio(ddiv(Moment(x, m, 2), Num(Len(x))),
                          ddiv(Moment(x, m, 4), Num(Len(x))))
  IN  IF Len(x) <= 3 THEN NaN ELSE moments(mean(x))

summary_stats(x) ==
  LET keep(i) == deq(x[i], x[i])
      select(kept) == [i \in 1..Len(kept) |-> x[kept[i]]]
      stats(filtered) ==
        IF Len(filtered) <= 0
        THEN [n |-> 0, mean |-> NaN, sd |-> NaN, skew |-> NaN, ex_kurtosis |-> NaN,
              min |-> NaN, max |-> NaN]
        ELSE [n |-> Len(filtered), mean |-> mean(filtered), sd |-> stdev(filtered),
              skew |-> skew(filtered), ex_kurtosis |-> excess_kurtosis(filtered),
              min |-> MinSeq(Tail(filtered), Head(filtered)),
              max |-> MaxSeq(Tail(filtered), Head(filtered))]
  IN  stats(select(Positions(Len(x), keep)))

\* autocorrelations that are computed for every lag asked for
autocorrelations_unclamped(x, k) ==
  LET n == Len(x)
      m == mean(x)
      d(t) == dsub(x[t], m)
      denom == SumSeq([t \in 1..n |-> dmul(d(t), d(t))])
      num(lag) == SumSeq([t \in 1..(IF lag < n THEN n - lag ELSE 0) |-> dmul(d(t + lag), d(t))])
  IN  IF k <= 0 \/ n <= 1 THEN <<>>
      ELSE IF ~dgt(denom, Num(0)) THEN [lag \in 1..k |-> NaN]
      ELSE [lag \in 1..k |-> ddiv(num(lag), denom)]

\* r: one entry per lag 1..k after k has been clamped to n - 1
autocorrelations(x, k) ==
  LET n == Len(x)
      clamped == IF k > n - 1 THEN n - 1 ELSE k
      m == mean(x)
      d(t) == dsub(x[t], m)
      denom == SumSeq([t \in 1..n |-> dmul(d(t), d(t))])
      num(lag) == SumSeq([t \in 1..(n - lag) |-> dmul(d(t + lag), d(t))])
  IN  IF k <= 0 \/ n <= 1 THEN <<>>
      ELSE IF ~dgt(denom, Num(0)) THEN [lag \in 1..clamped |-> NaN]
      ELSE [lag \in 1..clamped |-> ddiv(num(lag), denom)]

\* the lines written to os after the header, one per lag (the widths and
\* the precision of the text are left out): the lag and the cells of
\* acf_returns, acf_abs and acf_sq at lag - 1, a cell that is not finite as
\* the text NA; the vectors are indexed without a check of their size, and
\* beyond is what a read past the end of a vector yields
print_autocorr_table(x, max_lag, beyond) ==
  LET abs_vals == [i \in 1..Len(x) |-> IF x[i].n < 0 THEN dneg(x[i]) ELSE x[i]]
      sq_vals == [i \in 1..Len(x) |-> dmul(x[i], x[i])]
      at(acf, lag) == IF lag <= Len(acf) THEN acf[lag] ELSE beyond
      print_value(value) == IF value.d > 0 THEN value ELSE <<"N", "A">>
      lines(acf_returns, acf_abs, acf_sq) ==
        [lag \in 1..max_lag |->
           <<lag, print_value(at(acf_returns, lag)), print_value(at(acf_abs, lag)),
             print_value(at(acf_sq, lag))>>]
  IN  IF max_lag <= 0 THEN <<>>
      ELSE lines(autocorrelations(x, max_lag), autocorrelations(abs_vals, max_lag),
                 autocorrelations(sq_vals, max_lag))

labels == <<<<"n">>, <<"m", "e", "d", "i", "a", "n">>, <<"m", "e", "a", "n">>, <<"s", "d">>, <<"s", "k", "e", "w">>, <<"e", "x", "_", "k", "u", "r", "t", "o", "s", "i", "s">>, <<"m", "i", "n">>, <<"m", "a", "x">>>>

column_stats_dataframe(t) ==
  LET stats(values, s) ==
        <<Num(s.n), compute_median(values), s.mean, s.sd, s.skew, s.ex_kurtosis,
          s.min, s.max>>
      column(values) == stats(values, summary_stats(values))
  IN  Ok([itype |-> "string", columns |-> t.columns, index |-> labels,
          index_name |-> <<"s", "t", "a", "t", "i", "s", "t", "i", "c">>,
          data |-> [i \in 1..Len(labels) |->
                      [c \in 1..cols(t) |-> column(ColumnValues(t, c))[i]]]])

\* the rows without a missing cell, and the column means over them
ValidRows(t) ==
  LET keep(r) == ~\E c \in 1..cols(t) : isnan(t.data[r][c])
  IN  Positions(rows(t), keep)

\* a covariance over the rows in which the columns i and j are not NaN
Cov_pairwise(t, i, j) ==
  LET both(r) == ~isnan(t.data[r][i]) /\ ~isnan(t.data[r][j])
      column(valid_rows, c) == [k \in 1..Len(valid_rows) |-> t.data[valid_rows[k]][c]]
      centered(x, m) == [k \in 1..Len(x) |-> dsub(x[k], m)]
      means(x) == ddiv(SumSeq(x), Num(Len(x)))
      accum(a, b) == ddiv(SumSeq([k \in 1..Len(a) |-> dmul(a[k], b[k])]), Num(Len(a) - 1))
      over(x, y) == accum(centered(x, means(x)), centered(y, means(y)))
      among(valid_rows) == over(column(valid_rows, i), column(valid_rows, j))
  IN  among(Positions(rows(t), both))

\* accum / (valid_rows.size() - 1) for the columns i and j
Cov(t, i, j) ==
  LET column(valid_rows, c) == [k \in 1..Len(valid_rows) |-> t.data[valid_rows[k]][c]]
      centered(x, m) == [k \in 1..Len(x) |-> dsub(x[k], m)]
      means(x) == ddiv(SumSeq(x), Num(Len(x)))
      accum(a, b) == ddiv(SumSeq([k \in 1..Len(a) |-> dmul(a[k], b[k])]), Num(Len(a) - 1))
      over(x, y) == accum(centered(x, means(x)), centered(y, means(y)))
      among(valid_rows) == over(column(valid_rows, i), column(valid_rows, j))
  IN  among(ValidRows(t))

\* the checks correlation_matrix and covariance_matrix share, then the matrix
Matrix(t, Entry(_, _), name) ==
  IF t.columns = <<>>
  THEN Fail("dataframe::" \o name \o ": no columns")
  ELSE IF rows(t) < 2
  THEN Fail("dataframe::" \o name \o ": need at least two rows")
  ELSE IF Len(ValidRows(t)) < 2
  THEN Fail("dataframe::" \o name \o ": need at least two non-NaN rows")
  ELSE Ok([itype |-> "string", columns |-> t.columns, index |-> t.columns,
           index_name |-> <<"c", "o", "l", "u", "m", "n">>,
           data |-> [i \in 1..cols(t) |-> [j \in 1..cols(t) |-> Entry(i, j)]]])

\* a correlation that divides by the deviation of the row's column alone
correlation_matrix_by_row_deviation(t) ==
  LET sds(cov) == IF dgt(cov, Num(0)) THEN dsqrt(cov) ELSE Num(0)
      corr(si, cov) == IF dle(si, Num(0)) THEN NaN ELSE ddiv(cov, dmul(si, si))
      entry(i, j) == IF i = j THEN Num(1) ELSE corr(sds(Cov(t, i, i)), Cov(t, i, j))
  IN  Matrix(t, entry, "correlation_matrix")

correlation_matrix(t) ==
  LET sds(cov) == IF dgt(cov, Num(0)) THEN dsqrt(cov) ELSE Num(0)
      corr(si, sj, cov) ==
        IF dle(si, Num(0)) \/ dle(sj, Num(0)) THEN NaN ELSE ddiv(cov, dmul(si, sj))
      entry(i, j) ==
        IF i = j THEN Num(1)
        ELSE corr(sds(Cov(t, i, i)), sds(Cov(t, j, j)), Cov(t, i, j))
  IN  Matrix(t, entry, "correlation_matrix")

covariance_matrix(t) ==
  LET entry(i, j) == Cov(t, i, j)
  IN  Matrix(t, entry, "covariance_matrix")

\* ranks that number equal cells in row order instead of sharing a mean
Ranks_in_row_order(t, c) ==
  LET present(r) == ~isnan(t.data[r][c])
      before(q, r) == \/ dlt(t.data[q][c], t.data[r][c])
                      \/ deq(t.data[q][c], t.data[r][c]) /\ q < r
  IN  [r \in 1..rows(t) |->
         IF ~present(r) THEN NaN
         ELSE Num(1 + Cardinality({q \in 1..rows(t) : present(q) /\ before(q, r)}))]

\* column c of ranked: the (value, row) pairs of the non-missing cells sorted
\* by value then row, every run of equal values given the mean of its positions
Ranks(t, c) ==
  LET present(r) == deq(t.data[r][c], t.data[r][c])
      less(a, b) == IF deq(t.data[a][c], t.data[b][c]) THEN a < b
                    ELSE dlt(t.data[a][c], t.data[b][c])
      place(v, x) == IF \E i \in 1..Len(v) : less(x, v[i])
                     THEN CHOOSE i \in 1..Len(v) :
                            less(x, v[i]) /\ \A j \in 1..(i - 1) : ~less(x, v[j])
                     ELSE Len(v) + 1
      insert(v, x, k) == SubSeq(v, 1, k - 1) \o <<x>> \o SubSeq(v, k, Len(v))
      step(v, r) == IF present(r) THEN insert(v, r, place(v, r)) ELSE v
      S[r \in 0..rows(t)] == IF r = 0 THEN <<>> ELSE step(S[r - 1], r)
      first(same) == CHOOSE i \in same : \A j \in same : i <= j
      avg(same) == ddiv(SumSeq([j \in 1..Cardinality(same) |-> Num(first(same) + j - 1)]),
                        Num(Cardinality(same)))
      avg_rank(values, k) ==
        avg({j \in 1..Len(values) : deq(t.data[values[j]][c], t.data[values[k]][c])})
      ranked(values) ==
        [r \in 1..rows(t) |->
           IF ~present(r) THEN NaN
           ELSE avg_rank(values, CHOOSE k \in 1..Len(values) : values[k] = r)]
  IN  ranked(S[rows(t)])

spearman_correlation_matrix(t) ==
  IF t.columns = <<>>
  THEN Fail("dataframe::spearman_correlation_matrix: no columns")
  ELSE IF rows(t) < 2
  THEN Fail("dataframe::spearman_correlation_matrix: need at least two rows")
  ELSE IF \E c \in 1..cols(t) : Len(ColumnValues(t, c)) < 2
  THEN Fail("dataframe::spearman_correlation_matrix: insufficient data in column ")
  ELSE correlation_matrix(
         [t EXCEPT !.data = [r \in 1..rows(t) |->
                               [c \in 1..cols(t) |-> Ranks(t, c)[r]]]])

kendall_tau_matrix(t) ==
  LET keep(i, j, r) == ~isnan(t.data[r][i]) /\ ~isnan(t.data[r][j])
      diff(c, pairs, ab) == dsub(t.data[pairs[ab[1]]][c], t.data[pairs[ab[2]]][c])
      agree(di, dj) == \/ dgt(di, Num(0)) /\ dgt(dj, Num(0))
                       \/ dlt(di, Num(0)) /\ dlt(dj, Num(0))
      tied(di, dj) == deq(di, Num(0)) \/ deq(dj, Num(0))
      score(concordant, discordant) ==
        IF concordant + discordant = 0 THEN NaN
        ELSE ddiv(Num(concordant - discordant), Num(concordant + discordant))
      count(i, j, pairs, ordered) ==
        score(Cardinality({ab \in ordered : agree(diff(i, pairs, ab), diff(j, pairs, ab))}),
              Cardinality({ab \in ordered :
                             /\ ~tied(diff(i, pairs, ab), diff(j, pairs, ab))
                             /\ ~agree(diff(i, pairs, ab), diff(j, pairs, ab))}))
      among(i, j, pairs) ==
        IF Len(pairs) < 2 THEN NaN
        ELSE count(i, j, pairs,
                   {ab \in (1..Len(pairs)) \X (1..Len(pairs)) : ab[1] < ab[2]})
      tau(i, j) == LET both(r) == keep(i, j, r)
                   IN  among(i, j, Positions(rows(t), both))
  IN  IF t.columns = <<>>
      THEN Fail("dataframe::kendall_tau_matrix: no columns")
      ELSE IF rows(t) < 2
      THEN Fail("dataframe::kendall_tau_matrix: need at least two rows")
      ELSE Ok([itype |-> "string", columns |-> t.columns, index |-> t.columns,
               index_name |-> <<"c", "o", "l", "u", "m", "n">>,
               data |-> [i \in 1..cols(t) |->
                           [j \in 1..cols(t) |->
                              IF i = j THEN Num(1)
                              ELSE tau(IF i < j THEN i ELSE j, IF i < j THEN j ELSE i)]]])

(***************************************************************************)
(* Random factories.  The generator's output is an input of the model:     *)
(* draws[r][c] is what dist(rng) returns for row r, in call order.         *)
(***************************************************************************)
INT_MAX == 2147483647

random_normal(row_count, columns, stddev, target_corr, draws) ==
  IF columns = <<>>
  THEN Fail("random_normal: at least one column is required")
  ELSE IF dle(stddev, Num(0))
  THEN Fail("random_normal: standard deviation must be positive")
  ELSE IF dlt(target_corr, Num(0)) \/ dgt(target_corr, Num(1))
  THEN Fail("random_normal: target correlation must be in [0, 1]")
  ELSE IF row_count > INT_MAX
  THEN Fail("random_normal: row count exceeds index capacity")
  ELSE LET coeff1 == dsqrt(target_corr)
           coeff2 == dsqrt(dsub(Num(1), target_corr))
           cell(r, c) ==
             IF Len(columns) <= 1 \/ deq(target_corr, Num(0)) \/ c = 1
             THEN draws[r][c]
             ELSE dadd(dmul(coeff1, draws[r][1]), dmul(coeff2, draws[r][c]))
       IN  Ok([itype |-> "int", columns |-> columns, index_name |-> INDEX,
               index |-> [r \in 1..row_count |-> r - 1],
               data |-> [r \in 1..row_count |-> [c \in 1..Len(columns) |-> cell(r, c)]]])

random_uniform(row_count, columns, min, max, draws) ==
  IF columns = <<>>
  THEN Fail("random_uniform: at least one column is required")
  ELSE IF dle(max, min)
  THEN Fail("random_uniform: min must be less than max")
  ELSE IF row_count > INT_MAX
  THEN Fail("random_uniform: row count exceeds index capacity")
  ELSE Ok([itype |-> "int", columns |-> columns, index_name |-> INDEX,
           index |-> [r \in 1..row_count |-> r - 1],
           data |-> [r \in 1..row_count |-> [c \in 1..Len(columns) |-> draws[r][c]]]])

(***************************************************************************)
(* Text: characters, integers and doubles as text                          *)
(***************************************************************************)
DIGITS == <<"0", "1", "2", "3", "4", "5", "6", "7", "8", "9">>

\* std::isdigit
isdigit(ch) == Contains(DIGITS, ch)

\* std::isspace in the "C" locale
isspace(ch) == ch \in {" ", "\t", "\n", "\r", "\f"}

\* s without its longest prefix whose characters all satisfy P
DropWhile(s, P(_)) ==
  LET stop == {i \in 1..Len(s) : ~P(s[i])}
  IN  IF stop = {} THEN <<>>
      ELSE SubSeq(s, CHOOSE i \in stop : \A j \in stop : i <= j, Len(s))

\* the longest prefix of s whose characters all satisfy P
TakeWhile(s, P(_)) == SubSeq(s, 1, Len(s) - Len(DropWhile(s, P)))

Reverse(s) == [i \in 1..Len(s) |-> s[Len(s) + 1 - i]]

trim(s) == Reverse(DropWhile(Reverse(DropWhile(s, isspace)), isspace))

\* the pieces of s between the separators sep; one piece more than separators
RECURSIVE Split(_, _)
Split(s, sep) ==
  LET notsep(ch) == ch # sep
      piece == TakeWhile(s, notsep)
  IN  IF Len(piece) = Len(s) THEN <<piece>>
      ELSE <<piece>> \o Split(SubSeq(s, Len(piece) + 2, Len(s)), sep)

\* what successive std::getline calls return: the pieces between the
\* delimiters, without a last piece that is empty (getline fails at the end)
getlines(s, delim) ==
  LET pieces == Split(s, delim)
  IN  IF pieces[Len(pieces)] = <<>> THEN SubSeq(pieces, 1, Len(pieces) - 1) ELSE pieces

\* split_csv without the empty field it adds after a trailing comma
split_csv_no_trailing_field(line) ==
  LET got == getlines(line, ",")
  IN  [i \in 1..Len(got) |-> trim(got[i])]

split_csv(line) ==
  LET got == getlines(line, ",")
      fields == [i \in 1..Len(got) |-> trim(got[i])]
  IN  IF line # <<>> /\ line[Len(line)] = "," THEN Append(fields, <<>>) ELSE fields

RECURSIVE Join(_, _)
Join(pieces, sep) ==
  IF pieces = <<>> THEN <<>>
  ELSE IF Len(pieces) = 1 THEN pieces[1]
  ELSE pieces[1] \o <<sep>> \o Join(Tail(pieces), sep)

\* the value of a run of decimal digits
RECURSIVE DigitsValue(_)
DigitsValue(s) ==
  IF s = <<>> THEN 0
  ELSE 10 * DigitsValue(SubSeq(s, 1, Len(s) - 1)) + (Find(DIGITS, s[Len(s)]) - 1)

\* the decimal digits of k >= 0, at least width of them (printf %0<width>d)
RECURSIVE DigitsOf(_, _)
DigitsOf(k, width) ==
  IF k < 10 /\ width <= 1 THEN <<DIGITS[k + 1]>>
  ELSE Append(DigitsOf(k \div 10, width - 1), DIGITS[(k % 10) + 1])

\* std::ostream << int, and printf %0<width>d (the sign counts in the width)
FormatInt(k, width) ==
  IF k < 0 THEN <<"-">> \o DigitsOf(-k, width - 1) ELSE DigitsOf(k, width)

\* std::istringstream >> int, then the check that only white space follows:
\* an optional sign, the longest run of digits, nothing else
ParseInt(token) ==
  LET body == DropWhile(token, isspace)
      signed == body # <<>> /\ body[1] \in {"+", "-"}
      rest == IF signed THEN Tail(body) ELSE body
      run == TakeWhile(rest, isdigit)
      after == DropWhile(rest, isdigit)
  IN  IF run = <<>> \/ Len(run) > 9 \/ DropWhile(after, isspace) # <<>>
      THEN [ok |-> FALSE, value |-> 0]
      ELSE [ok |-> TRUE,
            value |-> IF signed /\ body[1] = "-" THEN -DigitsValue(run) ELSE DigitsValue(run)]

\* x * base^k for an integer k, reduced at every step
RECURSIVE Scale(_, _, _)
Scale(x, base, k) ==
  IF k = 0 THEN x
  ELSE IF k > 0 THEN Scale(dmul(x, Num(base)), base, k - 1)
  ELSE Scale(ddiv(x, Num(base)), base, k + 1)

\* the largest decimal exponent a double holds (std::numeric_limits<double>::max_exponent10)
MAX_EXPONENT10 == 308

\* std::stod: skips white space, converts the longest prefix that is a number
\* (decimal with optional fraction and exponent, "inf"/"infinity", "nan") and
\* ignores whatever follows it; throws when no prefix is a number or the value
\* is out of range.  Hexadecimal input is not part of the model.
stod(token) ==
  LET lower(ch) == CASE ch = "I" -> "i" [] ch = "N" -> "n" [] ch = "F" -> "f"
                     [] ch = "A" -> "a" [] OTHER -> ch
      word(rest) == [i \in 1..(IF Len(rest) < 3 THEN Len(rest) ELSE 3) |-> lower(rest[i])]
      \* the decimal exponent that follows the fraction, 0 if there is none
      exponent(after) ==
        LET has_sign == Len(after) >= 2 /\ after[1] \in {"e", "E"} /\ after[2] \in {"+", "-"}
            run == IF after = <<>> \/ after[1] \notin {"e", "E"} THEN <<>>
                      ELSE TakeWhile(SubSeq(after, IF has_sign THEN 3 ELSE 2, Len(after)),
                                     isdigit)
        IN  IF run = <<>> THEN 0
            ELSE IF Len(run) > 3 THEN MAX_EXPONENT10 + 1
            ELSE IF has_sign /\ after[2] = "-" THEN -DigitsValue(run)
            ELSE DigitsValue(run)
      convert(sign, int_part, frac_part, e) ==
        IF int_part = <<>> /\ frac_part = <<>> THEN [ok |-> FALSE, value |-> NaN]
        ELSE IF DigitsValue(int_part \o frac_part) = 0 THEN [ok |-> TRUE, value |-> Num(0)]
        ELSE IF Abs(e) + Len(int_part) + Len(frac_part) > MAX_EXPONENT10
        THEN [ok |-> FALSE, value |-> NaN]
        ELSE [ok |-> TRUE,
              value |-> dmul(Num(sign), Scale(Num(DigitsValue(int_part \o frac_part)), 10,
                                              e - Len(frac_part)))]
      fraction(sign, int_part, after_int) ==
        IF after_int # <<>> /\ after_int[1] = "."
        THEN convert(sign, int_part, TakeWhile(Tail(after_int), isdigit),
                     exponent(DropWhile(Tail(after_int), isdigit)))
        ELSE convert(sign, int_part, <<>>, exponent(after_int))
      number(sign, rest) ==
        IF word(rest) = <<"i", "n", "f">> THEN [ok |-> TRUE, value |-> Inf(sign)]
        ELSE IF word(rest) = <<"n", "a", "n">> THEN [ok |-> TRUE, value |-> NaN]
        ELSE fraction(sign, TakeWhile(rest, isdigit), DropWhile(rest, isdigit))
      signed(body) ==
        IF body # <<>> /\ body[1] \in {"+", "-"}
        THEN number(IF body[1] = "-" THEN -1 ELSE 1, Tail(body))
        ELSE number(1, body)
  IN  signed(DropWhile(token, isspace))

\* the digits std::ostream << double writes at the default precision
PRECISION == 6

\* std::ostream << double: printf %g at precision 6.  The value is rounded
\* to 6 significant digits (ties to even), trailing zeros are dropped, and
\* the exponent form is used when the decimal exponent is < -4 or >= 6.
FormatDouble(v) ==
  LET RECURSIVE Exp10(_, _)
      Exp10(x, e) == IF dlt(x, Num(1)) THEN Exp10(dmul(x, Num(10)), e - 1)
                     ELSE IF dle(Num(10), x) THEN Exp10(ddiv(x, Num(10)), e + 1)
                     ELSE e
      zeros(k) == [i \in 1..k |-> "0"]
      iszero(ch) == ch = "0"
      \* sig: the significant digits without trailing zeros, e: their exponent
      written(sig, e) ==
        IF e < -4 \/ e >= PRECISION
        THEN <<sig[1]>> \o (IF Len(sig) > 1 THEN <<".">> \o Tail(sig) ELSE <<>>)
             \o <<"e", IF e < 0 THEN "-" ELSE "+">> \o DigitsOf(Abs(e), 2)
        ELSE IF e < 0 THEN <<"0", ".">> \o zeros(-e - 1) \o sig
        ELSE IF Len(sig) <= e + 1 THEN sig \o zeros(e + 1 - Len(sig))
        ELSE SubSeq(sig, 1, e + 1) \o <<".">> \o SubSeq(sig, e + 2, Len(sig))
      \* rounded: the first PRECISION digits as a number; a carry gives one more
      digits(rounded, e) ==
        IF rounded = 1000000 THEN written(<<"1">>, e + 1)
        ELSE written(Reverse(DropWhile(Reverse(DigitsOf(rounded, PRECISION)), iszero)), e)
      \* round half to even
      round(floor, twice, d, e) ==
        digits(IF twice > d \/ (twice = d /\ floor % 2 = 1) THEN floor + 1 ELSE floor, e)
      scale(scaled, e) ==
        round(scaled.n \div scaled.d, 2 * (scaled.n % scaled.d), scaled.d, e)
      magnitude(a, e) == scale(Scale(a, 10, PRECISION - 1 - e), e)
      sign == IF v.n < 0 THEN <<"-">> ELSE <<>>
  IN  IF isnan(v) THEN <<"n", "a", "n">>
      ELSE IF isinf(v) THEN sign \o <<"i", "n", "f">>
      ELSE IF v.n = 0 THEN <<"0">>
      ELSE IF v.n < 0 THEN sign \o magnitude(dneg(v), Exp10(dneg(v), 0))
      ELSE magnitude(v, Exp10(v, 0))

(***************************************************************************)
(* Calendar values (src/date_utils.cpp)                                    *)
(***************************************************************************)
is_leap_year(year) ==
  IF year % 400 = 0 THEN TRUE ELSE IF year % 100 = 0 THEN FALSE ELSE year % 4 = 0

days_in_month(year, month) ==
  IF month = 0 \/ month > 12 THEN 0
  ELSE IF month = 2 /\ is_leap_year(year) THEN 29
  ELSE <<31, 28, 31, 30, 31, 30, 31, 31, 30, 31, 30, 31>>[month]

is_valid_date(year, month, day) ==
  IF month = 0 \/ month > 12 THEN FALSE
  ELSE day >= 1 /\ day <= days_in_month(year, month)

is_valid_time(hour, minute, second) == hour <= 23 /\ minute <= 59 /\ second <= 59

\* std::stoi(text.substr(offset, count)) on digits; offset is 0-based
parse_number(text, offset, count) == DigitsValue(SubSeq(text, offset + 1, offset + count))

parse_iso_date(iso_date) ==
  IF Len(iso_date) # 10 \/ iso_date[5] # "-" \/ iso_date[8] # "-"
  THEN [ok |-> FALSE, value |-> 0]
  ELSE IF \E i \in (0..9) \ {4, 7} : ~isdigit(iso_date[i + 1])
  THEN [ok |-> FALSE, value |-> 0]
  ELSE LET year == parse_number(iso_date, 0, 4)
           month == parse_number(iso_date, 5, 2)
           day == parse_number(iso_date, 8, 2)
       IN  IF ~is_valid_date(year, month, day) THEN [ok |-> FALSE, value |-> 0]
           ELSE [ok |-> TRUE, value |-> [year |-> year, month |-> month, day |-> day]]

parse_iso_datetime(text) ==
  IF Len(text) < 19 THEN [ok |-> FALSE, value |-> 0]
  ELSE IF text[5] # "-" \/ text[8] # "-" THEN [ok |-> FALSE, value |-> 0]
  ELSE IF text[11] # " " /\ text[11] # "T" THEN [ok |-> FALSE, value |-> 0]
  ELSE IF text[14] # ":" \/ text[17] # ":" THEN [ok |-> FALSE, value |-> 0]
  ELSE IF \E i \in (0..18) \ {4, 7, 10, 13, 16} : ~isdigit(text[i + 1])
  THEN [ok |-> FALSE, value |-> 0]
  ELSE LET year == parse_number(text, 0, 4)
           month == parse_number(text, 5, 2)
           day == parse_number(text, 8, 2)
           hour == parse_number(text, 11, 2)
           minute == parse_number(text, 14, 2)
           second == parse_number(text, 17, 2)
           tz == SubSeq(text, 20, Len(text))
           tz_ok ==
             \/ tz = <<>>
             \/ tz = <<"Z">>
             \/ /\ tz[1] \in {"+", "-"}
                /\ Len(tz) = 6
                /\ isdigit(tz[2]) /\ isdigit(tz[3]) /\ tz[4] = ":"
                /\ isdigit(tz[5]) /\ isdigit(tz[6])
       IN  IF ~is_valid_date(year, month, day) THEN [ok |-> FALSE, value |-> 0]
           ELSE IF ~is_valid_time(hour, minute, second) THEN [ok |-> FALSE, value |-> 0]
           ELSE IF ~tz_ok THEN [ok |-> FALSE, value |-> 0]
           ELSE [ok |-> TRUE,
                 value |-> [year |-> year, month |-> month, day |-> day,
                            hour |-> hour, minute |-> minute, second |-> second]]

\* snprintf "%04d-%02u-%02u"
format_iso_date(date) ==
  IF ~is_valid_date(date.year, date.month, date.day)
  THEN [ok |-> FALSE, text |-> <<>>]
  ELSE [ok |-> TRUE,
        text |-> FormatInt(date.year, 4) \o <<"-">> \o FormatInt(date.month, 2)
                 \o <<"-">> \o FormatInt(date.day, 2)]

\* snprintf "%04d-%02u-%02u %02u:%02u:%02u"
format_iso_datetime(datetime) ==
  IF \/ ~is_valid_date(datetime.year, datetime.month, datetime.day)
     \/ ~is_valid_time(datetime.hour, datetime.minute, datetime.second)
  THEN [ok |-> FALSE, text |-> <<>>]
  ELSE [ok |-> TRUE,
        text |-> FormatInt(datetime.year, 4) \o <<"-">> \o FormatInt(datetime.month, 2)
                 \o <<"-">> \o FormatInt(datetime.day, 2) \o <<" ">>
                 \o FormatInt(datetime.hour, 2) \o <<":">> \o FormatInt(datetime.minute, 2)
                 \o <<":">> \o FormatInt(datetime.second, 2)]

(***************************************************************************)
(* Text encoding (to_csv) and decoding (from_csv)                          *)
(***************************************************************************)
index_to_string(it, value) ==
  CASE it = "Date" -> format_iso_date(value)
    [] it = "DateTime" -> format_iso_datetime(value)
    [] it = "string" -> [ok |-> TRUE, text |-> value]
    [] OTHER -> [ok |-> TRUE, text |-> FormatInt(value, 0)]

parse_token(it, token) ==
  CASE it = "string" -> [ok |-> TRUE, value |-> token]
    [] it = "Date" -> parse_iso_date(token)
    [] it = "DateTime" -> parse_iso_datetime(token)
    [] OTHER -> ParseInt(token)

\* the stream after to_csv: text holds what was written, also when it throws
to_csv(t, include_header, include_index) ==
  LET header == IF ~include_header THEN <<>>
                ELSE Join((IF include_index THEN <<t.index_name>> ELSE <<>>) \o t.columns, ",")
                     \o <<"\n">>
      cell(value) == IF deq(value, value) THEN FormatDouble(value) ELSE <<>>
      \* row r after what was written before it; label is its index value as text
      written(prev, r, label) ==
        IF ~prev.ok THEN prev
        ELSE IF Len(t.data[r]) # cols(t)
        THEN [ok |-> FALSE, text |-> prev.text,
              err |-> "dataframe::to_csv: row has unexpected number of columns"]
        ELSE IF include_index /\ ~label.ok
        THEN [ok |-> FALSE, text |-> prev.text, err |-> "cannot format invalid date"]
        ELSE [ok |-> TRUE, err |-> "",
              text |-> prev.text
                       \o Join((IF include_index THEN <<label.text>> ELSE <<>>)
                               \o [c \in 1..cols(t) |-> cell(t.data[r][c])], ",")
                       \o <<"\n">>]
      W[r \in 0..rows(t)] ==
        IF r = 0 THEN [ok |-> TRUE, text |-> header, err |-> ""]
        ELSE written(W[r - 1], r, index_to_string(t.itype, t.index[r]))
  IN  IF include_index /\ Len(t.index) # rows(t)
      THEN [ok |-> FALSE, text |-> header, err |-> "dataframe::to_csv: index size mismatch"]
      ELSE W[rows(t)]

\* an automatic index that starts at 1
auto_index_from_one(index) == Len(index) + 1

\* idx = static_cast<IndexT>(df.index_.size())
auto_index(index) == Len(index)

\* one data line of from_csv, given the index read so far
csv_row(it, line, columns, has_index, index) ==
  LET offset == IF has_index THEN 1 ELSE 0
      cells(fields, idx, parsed) ==
        IF Len(fields) # Len(columns) + offset
        THEN [ok |-> FALSE, err |-> "dataframe::from_csv: row has unexpected number of columns"]
        ELSE IF ~idx.ok
        THEN [ok |-> FALSE,
              err |-> IF has_index THEN "dataframe::from_csv: invalid index value"
                      ELSE "dataframe::from_csv: index type cannot be auto-generated"]
        ELSE IF \E c \in 1..Len(columns) : ~parsed[c].ok
        THEN [ok |-> FALSE, err |-> "dataframe::from_csv: invalid numeric value"]
        ELSE [ok |-> TRUE, err |-> "", idx |-> idx.value,
              row |-> [c \in 1..Len(columns) |-> parsed[c].value]]
      indexed(fields) ==
        cells(fields,
              IF has_index THEN parse_token(it, fields[1])
              ELSE [ok |-> it = "int", value |-> auto_index(index)],
              [c \in 1..Len(columns) |->
                 IF fields[c + offset] = <<>> THEN [ok |-> TRUE, value |-> NaN]
                 ELSE stod(fields[c + offset])])
  IN  indexed(split_csv(line))

from_csv(it, input, has_index) ==
  LET lines == getlines(input, "\n")
      header(fields) ==
        IF fields = <<>>
        THEN Fail("dataframe::from_csv: header has no columns")
        ELSE IF has_index /\ Len(fields) < 2
        THEN Fail("dataframe::from_csv: need at least one data column when reading indices")
        ELSE IF (IF has_index THEN Tail(fields) ELSE fields) = <<>>
        THEN Fail("dataframe::from_csv: no data columns found")
        ELSE Ok([itype |-> it, index |-> <<>>, data |-> <<>>,
                 columns |-> IF has_index THEN Tail(fields) ELSE fields,
                 index_name |-> IF has_index THEN fields[1] ELSE INDEX])
      appended(prev, got) ==
        IF ~got.ok THEN Fail(got.err)
        ELSE Ok([prev.t EXCEPT !.index = Append(@, got.idx), !.data = Append(@, got.row)])
      row(prev, line) ==
        IF ~prev.ok \/ trim(line) = <<>> THEN prev
        ELSE appended(prev, csv_row(it, line, prev.t.columns, has_index, prev.t.index))
      R[i \in 1..Len(lines)] ==
        IF i = 1 THEN header(split_csv(lines[1])) ELSE row(R[i - 1], lines[i])
  IN  IF lines = <<>>
      THEN Fail("dataframe::from_csv: missing header row")
      ELSE R[Len(lines)]

(***************************************************************************)
(* Bytes: the object representations write_pod and read_pod copy           *)
(* (little-endian, two's complement int, IEEE-754 binary64 double)         *)
(***************************************************************************)
\* the characters with the codes 32 .. 126, in code order (the grave accent,
\* code 96, by its name)
PRINTABLE ==
  <<" ", "!", "\"", "#", "$", "%", "&", "'", "(", ")", "*", "+", ",", "-",
    ".", "/", "0", "1", "2", "3", "4", "5", "6", "7", "8", "9", ":", ";",
    "<", "=", ">", "?", "@", "A", "B", "C", "D", "E", "F", "G", "H", "I",
    "J", "K", "L", "M", "N", "O", "P", "Q", "R", "S", "T", "U", "V", "W",
    "X", "Y", "Z", "[", "\\", "]", "^", "_", "grave", "a", "b", "c", "d", "e",
    "f", "g", "h", "i", "j", "k", "l", "m", "n", "o", "p", "q", "r", "s",
    "t", "u", "v", "w", "x", "y", "z", "{", "|", "}", "~">>

char_code(ch) ==
  CASE ch = "\t" -> 9 [] ch = "\n" -> 10 [] ch = "\f" -> 12 [] ch = "\r" -> 13
    [] OTHER -> 31 + Find(PRINTABLE, ch)

code_char(b) ==
  CASE b = 9 -> "\t" [] b = 10 -> "\n" [] b = 12 -> "\f" [] b = 13 -> "\r"
    [] OTHER -> PRINTABLE[b - 31]

\* the width low-order bytes of k >= 0, least significant first
RECURSIVE LittleEndian(_, _)
LittleEndian(k, width) ==
  IF width = 0 THEN <<>> ELSE <<k % 256>> \o LittleEndian(k \div 256, width - 1)

RECURSIVE FromLittleEndian(_)
FromLittleEndian(bytes) ==
  IF bytes = <<>> THEN 0 ELSE Head(bytes) + 256 * FromLittleEndian(Tail(bytes))

\* a 4-byte int; a negative k is k + 2^32
int_bytes(k) ==
  IF k >= 0 THEN LittleEndian(k, 4)
  ELSE LET low == LittleEndian((k + 2147483647) + 1, 4)
       IN  [low EXCEPT ![4] = @ + 128]

bytes_int(bytes) ==
  IF bytes[4] < 128 THEN FromLittleEndian(bytes)
  ELSE (FromLittleEndian([bytes EXCEPT ![4] = @ - 128]) - 2147483647) - 1

EXPONENT_BIAS == 1023

FRACTION_BITS == 52

\* the binary digits of k >= 1, most significant first
RECURSIVE BinaryDigits(_)
BinaryDigits(k) == IF k < 2 THEN <<k>> ELSE Append(BinaryDigits(k \div 2), k % 2)

\* |v| = n / d = 1.f * 2^E: when d is a power of two, f is made of the binary
\* digits of n after its leading 1
Binary64(v) ==
  LET digits == BinaryDigits(Abs(v.n))
      scale == BinaryDigits(v.d)
  IN  [sign |-> IF v.n < 0 THEN 1 ELSE 0,
       E |-> (Len(digits) - 1) - (Len(scale) - 1),
       bits |-> [i \in 1..FRACTION_BITS |-> IF i < Len(digits) THEN digits[i + 1] ELSE 0],
       exact |-> \A i \in 2..Len(scale) : scale[i] = 0]

\* a finite double of the model whose value is a binary64 value
Representable(v) ==
  isnan(v) \/ isinf(v) \/ v.n = 0 \/ (~unrep(v) /\ Binary64(v).exact)

\* the 8 bytes of a double, least significant first
double_bytes(v) ==
  LET b == Binary64(v)
      biased == b.E + EXPONENT_BIAS
      RECURSIVE Bits(_, _)
      Bits(lo, hi) == IF lo > hi THEN 0 ELSE 2 * Bits(lo, hi - 1) + b.bits[hi]
  IN  IF isnan(v) THEN <<0, 0, 0, 0, 0, 0, 248, 127>>
      ELSE IF isinf(v) THEN <<0, 0, 0, 0, 0, 0, 240, IF v.n < 0 THEN 255 ELSE 127>>
      ELSE IF v.n = 0 THEN <<0, 0, 0, 0, 0, 0, 0, 0>>
      ELSE <<Bits(45, 52), Bits(37, 44), Bits(29, 36), Bits(21, 28), Bits(13, 20),
             Bits(5, 12), (biased % 16) * 16 + Bits(1, 4),
             b.sign * 128 + (biased \div 16)>>

bytes_double(bytes) ==
  LET sign == IF bytes[8] >= 128 THEN -1 ELSE 1
      biased == (bytes[8] % 128) * 16 + (bytes[7] \div 16)
      zero_fraction == bytes[7] % 16 = 0 /\ \A i \in 1..6 : bytes[i] = 0
      F[i \in 0..6] == IF i = 0 THEN Num(0)
                       ELSE ddiv(dadd(F[i - 1], Num(bytes[i])), Num(256))
      fraction == ddiv(dadd(F[6], Num(bytes[7] % 16)), Num(16))
  IN  IF biased = 2047 THEN (IF zero_fraction THEN Inf(sign) ELSE NaN)
      ELSE IF biased = 0 THEN (IF zero_fraction THEN Num(0) ELSE Unrep)
      ELSE dmul(Num(sign), Scale(dadd(Num(1), fraction), 2, biased - EXPONENT_BIAS))

(***************************************************************************)
(* Binary encoding (to_binary) and decoding (from_binary).  A read returns *)
(* [ok, value, rest, err]: the value and the unread rest of the stream, or *)
(* ok = FALSE and the message when the stream ended inside the field.      *)
(***************************************************************************)
MAGIC == <<"D", "F", "B", "I", "N", "1">>

U64 == 8

write_string(value) ==
  LittleEndian(Len(value), U64) \o [i \in 1..Len(value) |-> char_code(value[i])]

\* a write_index_value that writes the day of a date before its month
write_index_value_day_first(it, value) ==
  CASE it = "string" -> write_string(value)
    [] it = "Date" -> int_bytes(value.year) \o int_bytes(value.day) \o int_bytes(value.month)
    [] it = "DateTime" ->
         int_bytes(value.year) \o int_bytes(value.day) \o int_bytes(value.month)
         \o int_bytes(value.hour) \o int_bytes(value.minute) \o int_bytes(value.second)
    [] OTHER -> int_bytes(value)

write_index_value(it, value) ==
  CASE it = "string" -> write_string(value)
    [] it = "Date" -> int_bytes(value.year) \o int_bytes(value.month) \o int_bytes(value.day)
    [] it = "DateTime" ->
         int_bytes(value.year) \o int_bytes(value.month) \o int_bytes(value.day)
         \o int_bytes(value.hour) \o int_bytes(value.minute) \o int_bytes(value.second)
    [] OTHER -> int_bytes(value)

RECURSIVE Concat(_)
Concat(pieces) == IF pieces = <<>> THEN <<>> ELSE Head(pieces) \o Concat(Tail(pieces))

to_binary(t) ==
  [i \in 1..Len(MAGIC) |-> char_code(MAGIC[i])]
  \o LittleEndian(rows(t), U64)
  \o LittleEndian(cols(t), U64)
  \o write_string(t.index_name)
  \o LittleEndian(Len(t.columns), U64)
  \o Concat([i \in 1..Len(t.columns) |-> write_string(t.columns[i])])
  \o Concat([i \in 1..Len(t.index) |-> write_index_value(t.itype, t.index[i])])
  \o Concat([r \in 1..rows(t) |->
               Concat([c \in 1..Len(t.data[r]) |-> double_bytes(t.data[r][c])])])

\* is.read of size bytes, failing when fewer are left, and their value as a T
read_pod(input, size, Value(_)) ==
  IF Len(input) < size
  THEN [ok |-> FALSE, value |-> <<>>, rest |-> <<>>,
        err |-> "dataframe::binary_read: failed to read data"]
  ELSE [ok |-> TRUE, value |-> Value(SubSeq(input, 1, size)), err |-> "",
        rest |-> SubSeq(input, size + 1, Len(input))]

\* a read_string that does not look at the stream after reading the characters
read_string_unchecked(input) ==
  LET chars(s, n) == [i \in 1..n |-> IF i <= Len(s) THEN code_char(s[i]) ELSE "0"]
      text(length) ==
        IF ~length.ok THEN length
        ELSE [ok |-> TRUE, value |-> chars(length.rest, length.value), err |-> "",
              rest |-> SubSeq(length.rest, length.value + 1, Len(length.rest))]
  IN  text(read_pod(input, U64, FromLittleEndian))

read_string(input) ==
  LET chars(s, n) == [i \in 1..n |-> code_char(s[i])]
      text(length) ==
        IF ~length.ok THEN length
        ELSE IF Len(length.rest) < length.value
        THEN [ok |-> FALSE, value |-> <<>>, rest |-> <<>>,
              err |-> "dataframe::binary_read: failed to read string"]
        ELSE [ok |-> TRUE, value |-> chars(length.rest, length.value), err |-> "",
              rest |-> SubSeq(length.rest, length.value + 1, Len(length.rest))]
  IN  text(read_pod(input, U64, FromLittleEndian))

\* count reads by Read, one after the other
read_many(input, count, Read(_)) ==
  LET appended(prev, got) ==
        IF ~got.ok THEN got
        ELSE [got EXCEPT !.value = Append(prev.value, got.value)]
      step(prev) == IF ~prev.ok THEN prev ELSE appended(prev, Read(prev.rest))
      R[i \in 0..count] ==
        IF i = 0 THEN [ok |-> TRUE, value |-> <<>>, rest |-> input, err |-> ""]
        ELSE step(R[i - 1])
  IN  R[count]

read_index_value(it, input) ==
  LET int(s) == read_pod(s, 4, bytes_int)
      date(fields) ==
        IF ~fields.ok THEN fields
        ELSE [fields EXCEPT !.value = [year |-> @[1], month |-> @[2], day |-> @[3]]]
      datetime(fields) ==
        IF ~fields.ok THEN fields
        ELSE [fields EXCEPT !.value = [year |-> @[1], month |-> @[2], day |-> @[3],
                                       hour |-> @[4], minute |-> @[5], second |-> @[6]]]
  IN  CASE it = "string" -> read_string(input)
        [] it = "Date" -> date(read_many(input, 3, int))
        [] it = "DateTime" -> datetime(read_many(input, 6, int))
        [] OTHER -> int(input)

from_binary(it, input) ==
  LET u64(s) == read_pod(s, U64, FromLittleEndian)
      idx(s) == read_index_value(it, s)
      cell(s) == read_pod(s, 8, bytes_double)
      \* df so far, and the read that is checked next
      cells(df_, data) ==
        IF ~data.ok THEN Fail(data.err) ELSE Ok([df_ EXCEPT !.data = data.value])
      indices(df_, row_count, col_count, index) ==
        LET row(s) == read_many(s, col_count, cell)
        IN  IF ~index.ok THEN Fail(index.err)
            ELSE cells([df_ EXCEPT !.index = index.value],
                       read_many(index.rest, row_count, row))
      names(df_, row_count, col_count, columns) ==
        IF ~columns.ok THEN Fail(columns.err)
        ELSE indices([df_ EXCEPT !.columns = columns.value], row_count, col_count,
                     read_many(columns.rest, row_count, idx))
      metadata(df_, row_count, col_count, column_names) ==
        IF ~column_names.ok THEN Fail(column_names.err)
        ELSE IF column_names.value # col_count
        THEN Fail("dataframe::from_binary: column metadata mismatch")
        ELSE names(df_, row_count, col_count,
                   read_many(column_names.rest, col_count, read_string))
      label(row_count, col_count, index_name) ==
        IF ~index_name.ok THEN Fail(index_name.err)
        ELSE metadata([DataFrame(it) EXCEPT !.index_name = index_name.value],
                      row_count, col_count, u64(index_name.rest))
      columns_(row_count, col_count) ==
        IF ~col_count.ok THEN Fail(col_count.err)
        ELSE label(row_count, col_count.value, read_string(col_count.rest))
      rows_(row_count) ==
        IF ~row_count.ok THEN Fail(row_count.err)
        ELSE columns_(row_count.value, u64(row_count.rest))
  IN  IF \/ Len(input) < Len(MAGIC)
         \/ SubSeq(input, 1, Len(MAGIC)) # [i \in 1..Len(MAGIC) |-> char_code(MAGIC[i])]
      THEN Fail("dataframe::from_binary: invalid file header")
      ELSE rows_(u64(SubSeq(input, Len(MAGIC) + 1, Len(input))))

column_percentiles(t, percentiles) ==
  IF t.columns = <<>>
  THEN Fail("dataframe::column_percentiles: no columns")
  ELSE IF percentiles = <<>>
  THEN Fail("dataframe::column_percentiles: no percentiles specified")
  ELSE IF \E i \in 1..Len(percentiles) :
            dlt(percentiles[i], Num(0)) \/ dgt(percentiles[i], Num(100))
  THEN Fail("dataframe::column_percentiles: percentiles must be in [0, 100]")
  ELSE LET values(c) == std_sort(ColumnValues(t, c))
           count(c) == Len(values(c))
           cell(percentile, c) ==
             IF count(c) = 0 THEN NaN
             ELSE IF dle(percentile, Num(0)) THEN values(c)[1]
             ELSE IF dle(Num(100), percentile) THEN values(c)[count(c)]
             ELSE LET rank == dmul(ddiv(percentile, Num(100)), Num(count(c) - 1))
                      lower == rank.n \div rank.d
                      upper == -((-rank.n) \div rank.d)
                      fraction == dsub(rank, Num(lower))
                      lower_value == values(c)[lower + 1]
                      upper_value == values(c)[upper + 1]
                  IN  dadd(lower_value, dmul(fraction, dsub(upper_value, lower_value)))
       IN  Ok([itype |-> "string", columns |-> t.columns,
               index |-> [i \in 1..Len(percentiles) |-> FormatDouble(percentiles[i])],
               index_name |-> <<"p", "e", "r", "c", "e", "n", "t", "i", "l", "e">>,
               data |-> [i \in 1..Len(percentiles) |->
                           [c \in 1..cols(t) |-> cell(percentiles[i], c)]]])

(***************************************************************************)
(* The caller: what the operations are called with                         *)
(***************************************************************************)
\* the sequences over S of at most n elements
Seqs(S, n) == UNION {[1..k -> S] : k \in 0..n}

\* the index values the callers use, per index type
IndexValues(it) ==
  IF it = "int" THEN {0, 1}
  ELSE IF it = "string" THEN {<<"x">>, <<" ", "y">>, <<"p", ",", "q">>}
  ELSE IF it = "Date"
  THEN {[year |-> 2024, month |-> 2, day |-> 29], [year |-> 1999, month |-> 12, day |-> 31]}
  ELSE {[year |-> 2024, month |-> 2, day |-> 29, hour |-> 23, minute |-> 59, second |-> 7],
        [year |-> 1999, month |-> 12, day |-> 31, hour |-> 0, minute |-> 0, second |-> 0]}

\* an index value of the type that no table of the callers holds
Absent(it) ==
  IF it = "int" THEN 7
  ELSE IF it = "string" THEN <<"z">>
  ELSE IF it = "Date" THEN [year |-> 2000, month |-> 1, day |-> 1]
  ELSE [year |-> 2000, month |-> 1, day |-> 1, hour |-> 12, minute |-> 0, second |-> 0]

\* the cell matrices the callers build: 1, 2, 3, ... in row-major order, and
\* the same with a zero or a NaN in one place; one matrix with a short row
Matrices ==
  LET plain(r, c) == [i \in 1..r |-> [j \in 1..c |-> Num((i - 1) * c + j)]]
      holes(m) == {[m EXCEPT ![i][j] = v] :
                     i \in 1..Len(m), j \in 1..(IF m = <<>> THEN 0 ELSE Len(m[1])),
                     v \in {Num(0), NaN}}
  IN  UNION {{plain(r, c)} \cup holes(plain(r, c)) : r \in 0..MaxRows, c \in 0..MaxCols}
      \cup {<<<<Num(1)>>, <<Num(1), Num(2)>>>>}

\* the tables a binary combine of t is called with: t itself, t with a zero
\* in one place, and t with another label, other names, another index or
\* another shape
Operands(t) ==
  LET renamed(u) == IF cols(u) = 0 THEN u ELSE [u EXCEPT !.columns[cols(u)] = <<"z">>]
      reindexed(u) == IF rows(u) = 0 THEN u ELSE [u EXCEPT !.index[rows(u)] = Absent(u.itype)]
      shorter(u) == IF rows(u) = 0 THEN u
                    ELSE [u EXCEPT !.index = Tail(@), !.data = Tail(@)]
  IN  {t, [t EXCEPT !.index_name = <<"k">>], renamed(t), reindexed(t),
       reindexed(renamed(t)), shorter(t), shorter(renamed(t))}
      \cup {[t EXCEPT !.data[r][c] = Num(0)] : r \in 1..rows(t), c \in 1..cols(t)}

\* every cell of t is a double the model represents exactly
Storable(t) ==
  \A r \in 1..Len(t.data) : \A c \in 1..Len(t.data[r]) : ~unrep(t.data[r][c])

(***************************************************************************)
(* The caller: one step per call                                           *)
(***************************************************************************)
\* a call whose result also replaces the receiver
Returned_into_receiver(name, a, r) ==
  /\ Storable(r.t)
  /\ last' = name /\ arg' = a /\ out' = r.t /\ err' = r.err
  /\ df' = IF r.ok THEN r.t ELSE df
  /\ UNCHANGED <<chain, csv, stream>>

\* a const method or a static factory returns r (or throws r.err); *this and
\* the streams are not written
Returned(name, a, r) ==
  /\ Storable(r.t)
  /\ last' = name /\ arg' = a /\ out' = r.t /\ err' = r.err
  /\ UNCHANGED <<df, chain, csv, stream>>

\* df = F(...): the result of a factory is assigned to a default-constructed
\* df; a throw leaves df as it was
Assigned(name, r) ==
  /\ Storable(r.t)
  /\ last' = name /\ arg' = <<>> /\ out' = NoTable /\ err' = r.err
  /\ df' = IF r.ok THEN r.t ELSE df
  /\ UNCHANGED <<chain, csv, stream>>

Init ==
  /\ df \in {DataFrame(it) : it \in {"int", "string"}}
  /\ arg = NoTable /\ out = NoTable /\ err = "" /\ last = "" /\ chain = 0
  /\ csv = <<>> /\ stream = <<>>

Construct ==
  /\ last = "" /\ arg = NoTable /\ chain = 0 /\ df = DataFrame(df.itype)
  /\ \/ \E indices \in Seqs(IndexValues(df.itype), MaxRows) :
          \E columns \in {<<>>, <<<<"a">>>>, <<<<"a">>, <<"b">>>>, <<<<"a">>, <<"a">>>>, <<<<>>>>} :
            \E data \in Matrices :
              Assigned("from_vectors", from_vectors(df.itype, indices, columns, data))
     \/ /\ df.itype = "int"
        /\ \E row_count \in 0..MaxRows, columns \in {<<>>, <<<<"a">>, <<"b">>>>} :
             \E stddev \in {Num(0), Num(2)}, target_corr \in {Num(0), Num(1), Num(2)} :
               Assigned("random_normal",
                        random_normal(row_count, columns, stddev, target_corr,
                                      [r \in 1..row_count |-> <<Num(r), Num(-r)>>]))
     \/ /\ df.itype = "int"
        /\ \E row_count \in 0..MaxRows, columns \in {<<>>, <<<<"a">>, <<"b">>>>} :
             \E max \in {Num(0), Num(4)} :
               Assigned("random_uniform",
                        random_uniform(row_count, columns, Num(0), max,
                                       [r \in 1..row_count |-> <<Num(r), Rat(1, 2)>>]))

Transform ==
  /\ last = "" /\ arg = NoTable
  /\ \/ \E value \in {Num(0), Num(2), NaN, Inf(1)} :
          \/ Returned("add_scalar", value, add_scalar(df, value))
          \/ Returned("subtract_scalar", value, subtract_scalar(df, value))
          \/ Returned("multiply_scalar", value, multiply_scalar(df, value))
          \/ Returned("divide_scalar", value, divide_scalar(df, value))
     \/ Returned("log_elements", <<>>, log_elements(df))
     \/ Returned("exp_elements", <<>>, exp_elements(df))
     \/ \E exponent \in {Num(0), Num(2), Num(-1), Rat(1, 2)} :
          Returned("power", exponent, power(df, exponent))
     \/ Returned("differences", <<>>, differences(df))
     \/ Returned("log_changes", <<>>, log_changes(df))
     \/ Returned("proportional_changes", <<>>, proportional_changes(df))
     \/ Returned("standardize", <<>>, standardize(df))
     \/ Returned("normalize", <<>>, normalize(df))

\* the caller builds the operand of a binary combine
PickOperand ==
  /\ last = "" /\ arg = NoTable
  /\ arg' \in Operands(df)
  /\ UNCHANGED <<df, out, err, last, chain, csv, stream>>

Combine ==
  /\ last = "" /\ arg # NoTable
  /\ \/ Returned("add", arg, add(df, arg))
     \/ Returned("subtract", arg, subtract(df, arg))
     \/ Returned("multiply", arg, multiply(df, arg))
     \/ Returned("divide", arg, divide(df, arg))

\* add_column is the one method that writes *this
AddColumn ==
  /\ last = "" /\ arg = NoTable
  /\ \E name \in {<<"a">>, <<"c">>, <<>>} :
       \E values \in {[r \in 1..k |-> Num(4 + r)] : k \in 0..MaxRows + 1} :
         LET called(r) == /\ r.ok => cols(df) < MaxCols
                          /\ df' = r.t /\ err' = r.err
         IN  /\ called(add_column(df, name, values))
             /\ last' = "add_column" /\ arg' = <<name, values>> /\ out' = NoTable
             /\ UNCHANGED <<chain, csv, stream>>

\* df = out: the returned table is kept for the next call
Rebind ==
  /\ last # "" /\ out.itype = df.itype /\ chain < MaxChain
  /\ rows(out) * cols(out) <= MaxKept
  /\ df' = out /\ chain' = chain + 1
  /\ last' = "" /\ arg' = NoTable /\ out' = NoTable /\ err' = ""
  /\ csv' = <<>> /\ stream' = <<>>

\* the result, the arguments and the streams of the last call go out of scope
Drop ==
  /\ last # ""
  /\ last' = "" /\ arg' = NoTable /\ out' = NoTable /\ err' = ""
  /\ csv' = <<>> /\ stream' = <<>>
  /\ UNCHANGED <<df, chain>>

Select ==
  /\ last = "" /\ arg = NoTable
  /\ \/ \E values \in Seqs(IndexValues(df.itype), 2) \cup {<<Absent(df.itype)>>} :
          Returned("select_rows", values, select_rows(df, values))
     \/ \E names \in Seqs({<<"a">>, <<"b">>}, 2) \cup {<<<<"z">>>>} :
          Returned("select_columns", names, select_columns(df, names))
     \/ /\ df.itype = "int"
        /\ \E start \in {0, 1}, end \in {0, 1}, inclusive_end \in BOOLEAN :
             Returned("slice_rows_range", <<start, end, inclusive_end>>,
                      slice_rows_range(df, start, end, inclusive_end))
     \/ \E count \in 0..MaxRows + 1 :
          \/ Returned("head_rows", count, head_rows(df, count))
          \/ Returned("tail_rows", count, tail_rows(df, count))
     \/ \E count \in 0..MaxCols + 1 :
          \/ Returned("head_columns", count, head_columns(df, count))
          \/ Returned("tail_columns", count, tail_columns(df, count))
     \/ Returned("remove_rows_with_nan", <<>>, remove_rows_with_nan(df))
     \/ Returned("remove_columns_with_nan", <<>>, remove_columns_with_nan(df))
     \/ \E column_name \in {<<"a">>, <<"b">>, <<"z">>}, ascending \in BOOLEAN :
          Returned("sort_rows_by_column", <<column_name, ascending>>,
                   sort_rows_by_column(df, column_name, ascending))
     \/ \E index_value \in IndexValues(df.itype) \cup {Absent(df.itype)} :
          \E ascending \in BOOLEAN :
            Returned("sort_columns_by_row", <<index_value, ascending>>,
                     sort_columns_by_row(df, index_value, ascending))

Roll ==
  /\ last = "" /\ arg = NoTable
  /\ \/ \E window \in 0..MaxRows + 1 :
          \/ Returned("rolling_mean", window, rolling_mean(df, window))
          \/ Returned("rolling_std", window, rolling_std(df, window))
          \/ Returned("rolling_rms", window, rolling_rms(df, window))
     \/ \E alpha \in {Num(0), Rat(1, 2), Num(1), Num(2), NaN} :
          Returned("exponential_moving_average", alpha,
                   exponential_moving_average(df, alpha))
     \/ \E sample_size \in {0, 1}, reset_index \in BOOLEAN :
          \E first \in 1..(IF rows(df) = 0 THEN 1 ELSE rows(df)), stride \in {0, 1} :
            LET picks == [i \in 1..(IF sample_size = 0 THEN rows(df) ELSE sample_size) |->
                            ((first - 1 + stride * (i - 1)) % (IF rows(df) = 0 THEN 1 ELSE rows(df))) + 1]
            IN  Returned("resample_rows", <<sample_size, reset_index, picks>>,
                         resample_rows(df, sample_size, reset_index, picks))

Aggregate ==
  /\ last = "" /\ arg = NoTable
  /\ \/ Returned("column_stats_dataframe", <<>>, column_stats_dataframe(df))
     \/ Returned("correlation_matrix", <<>>, correlation_matrix(df))
     \/ Returned("covariance_matrix", <<>>, covariance_matrix(df))
     \/ Returned("spearman_correlation_matrix", <<>>, spearman_correlation_matrix(df))
     \/ Returned("kendall_tau_matrix", <<>>, kendall_tau_matrix(df))
     \/ \E percentiles \in {<<>>, <<Num(50)>>, <<Num(0), Num(100)>>, <<Num(25)>>,
                            <<Num(101)>>} :
          Returned("column_percentiles", percentiles, column_percentiles(df, percentiles))

\* df.to_csv(stream, include_header, include_index)
ToCsv ==
  /\ last = "" /\ arg = NoTable
  /\ \E include_header \in BOOLEAN, include_index \in BOOLEAN :
       LET written(w) == csv' = w.text /\ err' = w.err
       IN  /\ written(to_csv(df, include_header, include_index))
           /\ last' = "to_csv" /\ arg' = <<include_header, include_index>>
           /\ out' = NoTable
           /\ UNCHANGED <<df, chain, stream>>

\* DataFrame<IndexT>::from_csv(stream, has_index) of the text that was written
FromCsv ==
  /\ last \in {"to_csv", "text"} /\ err = ""
  /\ \E has_index \in BOOLEAN :
       Returned("from_csv", [has_index |-> has_index, source |-> last, written |-> arg],
                from_csv(df.itype, csv, has_index))

\* df.to_binary(stream)
ToBinary ==
  /\ last = "" /\ arg = NoTable
  /\ \A r \in 1..rows(df) : \A c \in 1..cols(df) : Representable(df.data[r][c])
  /\ stream' = to_binary(df) /\ err' = "" /\ out' = NoTable
  /\ last' = "to_binary" /\ arg' = <<>>
  /\ UNCHANGED <<df, chain, csv>>

\* DataFrame<IndexT>::from_binary(stream) of the bytes that were written
FromBinary ==
  /\ last \in {"to_binary", "corrupt"}
  /\ Returned("from_binary",
              [source |-> last, written |-> IF last = "corrupt" THEN arg ELSE stream],
              from_binary(df.itype, stream))

Next ==
  \/ Construct \/ Transform \/ PickOperand \/ Combine \/ Select \/ Roll \/ Aggregate
  \/ ToCsv \/ FromCsv \/ ToBinary \/ FromBinary
  \/ AddColumn \/ Rebind \/ Drop

Spec == Init /\ [][Next]_vars

(***************************************************************************)
(* The codecs on tables of every index type, on texts that no to_csv wrote *)
(* and on streams that were damaged after to_binary wrote them             *)
(***************************************************************************)
\* df.set_index_name(name)
SetIndexName ==
  /\ last = "" /\ arg = NoTable
  /\ \E name \in {<<"a", ",", "b">>, <<" ", "k">>, <<>>} :
       /\ df' = [df EXCEPT !.index_name = name]
       /\ last' = "set_index_name" /\ arg' = name
  /\ out' = NoTable /\ err' = ""
  /\ UNCHANGED <<chain, csv, stream>>

\* a text to_csv did not write, in a stream that from_csv is about to read
Text ==
  /\ last = "" /\ arg = NoTable /\ df = DataFrame(df.itype)
  /\ csv' \in
       {<<"x", "\n", "1", "a", "b", "c", "\n">>,
        <<"x", "\n", "\n", "1", "\n", " ", " ", "\n", "2", "\n">>,
        <<"k", ",", "x", "\n", "0", ",", "1", ",", "2", "\n">>,
        <<"k", ",", "x", "\n", "0", "\n">>,
        <<"k", ",", "x", "\n", "q", ",", "1", "\n">>,
        <<" ", "k", " ", ",", " ", "x", " ", "\n", "0", ",", "\n", "1", ",", "2", "\n">>,
        <<"k", ",", "x", "\n", "0", ",", "1", "\n", "1", ",", "x", "2", "\n">>,
        <<>>,
        <<"\n", "1", "\n">>,
        <<"k", ",", "x", ",", "\n", "0", ",", "1", ",", "\n">>,
        <<"k", ",", "x", "\n", "1", ".", "5", ",", "-", "2", "e", "1", "\n">>}
  /\ last' = "text" /\ arg' = <<>> /\ out' = NoTable /\ err' = ""
  /\ UNCHANGED <<df, chain, stream>>

\* the written stream loses its end, or one byte of its magic tag or of its
\* second column count changes, before from_binary reads it; arg keeps the
\* bytes that were written
Corrupt ==
  /\ last = "to_binary"
  /\ LET field == Len(MAGIC) + U64 + U64 + U64 + Len(df.index_name)
     IN  \/ \E k \in 0..Len(stream) - 1 : stream' = SubSeq(stream, 1, k)
         \/ \E p \in (1..Len(MAGIC)) \cup {field + 1} :
              stream' = [stream EXCEPT ![p] = (@ + 1) % 256]
  /\ last' = "corrupt" /\ arg' = stream
  /\ UNCHANGED <<df, out, err, chain, csv>>

InitCodec ==
  /\ df \in {DataFrame(it) : it \in {"int", "string", "Date", "DateTime"}}
  /\ arg = NoTable /\ out = NoTable /\ err = "" /\ last = "" /\ chain = 0
  /\ csv = <<>> /\ stream = <<>>

NextCodec ==
  \/ Construct \/ SetIndexName \/ Text \/ Corrupt \/ Drop
  \/ ToCsv \/ FromCsv \/ ToBinary \/ FromBinary

SpecCodec == InitCodec /\ [][NextCodec]_vars

(***************************************************************************)
(* A caller that holds one series: a table of one column and up to         *)
(* MaxSeries rows, or of one row and up to MaxSeries columns, built with   *)
(* from_vectors and handed to the transforms, selections, sorts and        *)
(* rolling operations.                                                     *)
(***************************************************************************)
\* the series: -1, 0, 1, 2, NaN and +inf in every arrangement, and the
\* prices 100, 110, 121
SeriesTables ==
  LET V == {Num(-1), Num(0), Num(1), Num(2), NaN, Inf(1)}
      name(i) == IF i = 1 THEN <<"a">> ELSE IF i = 2 THEN <<"b">>
                 ELSE [k \in 1..(i - 2) |-> "c"]
      column(s) == [DataFrame("int") EXCEPT !.columns = <<name(1)>>,
                                            !.index = [i \in 1..Len(s) |-> i - 1],
                                            !.data = [i \in 1..Len(s) |-> <<s[i]>>]]
      row(s) == [DataFrame("int") EXCEPT !.columns = [i \in 1..Len(s) |-> name(i)],
                                         !.index = <<0>>,
                                         !.data = <<s>>]
  IN  {column(s) : s \in Seqs(V, MaxSeries) \cup {<<Num(100), Num(110), Num(121)>>}}
      \cup {row(s) : s \in Seqs(V, MaxSeries)}

InitSeries ==
  /\ df \in SeriesTables
  /\ arg = NoTable /\ out = NoTable /\ err = "" /\ last = "" /\ chain = 0
  /\ csv = <<>> /\ stream = <<>>

NextSeries == Transform \/ Select \/ Roll \/ Drop

SpecSeries == InitSeries /\ [][NextSeries]_vars

(***************************************************************************)
(* A caller that holds one frame of two or three columns and asks for its  *)
(* statistics and matrices.                                                *)
(***************************************************************************)
\* the frames: every column is 0, 1, 2 in some order, or constant, or holds
\* +inf twice or 0 twice, over three rows; a fourth row with one NaN cell
\* may stand before or after them; and the frames of one or two rows that
\* each have one NaN cell
FrameTables ==
  LET P == {<<Num(0), Num(1), Num(2)>>, <<Num(2), Num(1), Num(0)>>,
            <<Num(1), Num(2), Num(0)>>, <<Num(1), Num(1), Num(1)>>,
            <<Inf(1), Inf(1), Num(0)>>, <<Num(0), Num(0), Num(2)>>}
      names == <<<<"a">>, <<"b">>, <<"c">>>>
      whole(ps) == [r \in 1..3 |-> [c \in 1..Len(ps) |-> ps[c][r]]]
      broken(n, h) == [c \in 1..n |-> IF c = h THEN NaN ELSE Num(3)]
      frame(data) == [DataFrame("int") EXCEPT
                        !.columns = SubSeq(names, 1, Len(data[1])),
                        !.index = [r \in 1..Len(data) |-> r - 1],
                        !.data = data]
  IN  UNION {{frame(whole(ps))}
             \cup {frame(whole(ps) \o <<broken(Len(ps), h)>>) : h \in 1..Len(ps)}
             \cup {frame(<<broken(Len(ps), h)>> \o whole(ps)) : h \in 1..Len(ps)}
             : ps \in (P \X P) \cup (P \X P \X P)}
      \cup {frame(<<broken(n, h)>>) : n \in 2..3, h \in 1..3}
      \cup {frame(<<broken(n, h), broken(n, g)>>) : n \in 2..3, h \in 1..3, g \in 1..3}

InitFrames ==
  /\ df \in FrameTables
  /\ arg = NoTable /\ out = NoTable /\ err = "" /\ last = "" /\ chain = 0
  /\ csv = <<>> /\ stream = <<>>

NextFrames == Aggregate \/ Drop

SpecFrames == InitFrames /\ [][NextFrames]_vars

(***************************************************************************)
(* A caller that holds a series as the first column of a table and asks    *)
(* for its autocorrelations or has their table printed.                    *)
(***************************************************************************)
\* stats::autocorrelations(x, k) and stats::print_autocorr_table(x, max_lag,
\* os) for the first column x of df; out is the vector returned, or the
\* lines written.  A read past the end of a vector is undefined: it yields
\* some double, or the process is terminated after the lag of the line has
\* been written
Autocorrelate ==
  /\ last = "" /\ arg = NoTable /\ cols(df) >= 1
  /\ LET x == [r \in 1..rows(df) |-> df.data[r][1]]
     IN  \E k \in -1..MaxSeries + 1 :
           /\ arg' = k
           /\ \/ /\ last' = "autocorrelations"
                 /\ out' = autocorrelations(x, k) /\ err' = ""
              \/ /\ last' = "print_autocorr_table"
                 /\ \E beyond \in {Num(0), Num(1), NaN} :
                      out' = print_autocorr_table(x, k, beyond)
                 /\ err' = ""
              \/ /\ last' = "print_autocorr_table"
                 /\ k > Len(autocorrelations(x, k))
                 /\ out' = Append(SubSeq(print_autocorr_table(x, k, NaN), 1,
                                         Len(autocorrelations(x, k))),
                                  <<Len(autocorrelations(x, k)) + 1>>)
                 /\ err' = "terminated"
  /\ UNCHANGED <<df, chain, csv, stream>>

NextStats == Autocorrelate \/ Drop

SpecStats == InitSeries /\ [][NextStats]_vars

(***************************************************************************)
(* A caller that formats a Date or a DateTime and parses the text again,   *)
(* with or without a timezone designator after it.                         *)
(***************************************************************************)
InitDates ==
  /\ df = NoTable
  /\ arg = NoTable /\ out = NoTable /\ err = "" /\ last = "" /\ chain = 0
  /\ csv = <<>> /\ stream = <<>>

\* io::format_iso_date(Date(year, month, day)) and
\* io::format_iso_datetime(DateTime(year, ..., second)): csv is the text
FormatDate ==
  /\ last = "" /\ arg = NoTable
  /\ \E year \in {-1000, -1, 0, 1, 1900, 2000, 2024, 9999, 10000},
        month \in {0, 1, 2, 12, 13}, day \in {0, 1, 28, 29, 30, 31, 32} :
       LET date == [year |-> year, month |-> month, day |-> day]
           formatted(name, value, r) ==
             /\ last' = name /\ arg' = [value |-> value, tz |-> <<>>]
             /\ csv' = r.text
             /\ err' = IF r.ok THEN "" ELSE "cannot format invalid date"
       IN  \/ formatted("format_iso_date", date, format_iso_date(date))
           \/ \E time \in {<<0, 0, 0>>, <<23, 59, 59>>, <<9, 5, 7>>, <<24, 0, 0>>,
                             <<0, 60, 0>>, <<0, 0, 60>>} :
                LET datetime == [year |-> year, month |-> month, day |-> day,
                                 hour |-> time[1], minute |-> time[2], second |-> time[3]]
                IN  formatted("format_iso_datetime", datetime, format_iso_datetime(datetime))
  /\ UNCHANGED <<df, out, chain, stream>>

\* io::parse_iso_date(text) and io::parse_iso_datetime(text + tz) of the text
\* that was formatted
ParseDate ==
  /\ err = ""
  /\ LET parsed(name, r) ==
           /\ last' = name /\ out' = IF r.ok THEN r.value ELSE NoTable
           /\ err' = IF r.ok THEN "" ELSE "invalid date"
     IN  \/ /\ last = "format_iso_date"
            /\ parsed("parse_iso_date", parse_iso_date(csv))
            /\ UNCHANGED <<arg, csv>>
         \/ /\ last = "format_iso_datetime"
            /\ \E tz \in {<<>>, <<"Z">>, <<"+", "0", "1", ":", "0", "0">>,
                           <<"-", "0", "5", ":", "3", "0">>, <<"z">>, <<"Z", "Z">>,
                           <<"+", "1", ":", "0", "0">>, <<"+", "0", "1", "0", "0", "0">>} :
                 /\ parsed("parse_iso_datetime", parse_iso_datetime(csv \o tz))
                 /\ csv' = csv \o tz /\ arg' = [arg EXCEPT !.tz = tz]
  /\ UNCHANGED <<df, chain, stream>>

NextDates == FormatDate \/ ParseDate \/ Drop

SpecDates == InitDates /\ [][NextDates]_vars

(***************************************************************************)
(* Properties                                                              *)
(***************************************************************************)
\* C1: in every reachable state the receiver and the table a call returned
\* are rectangular: as many index entries as data rows, and in every data row
\* as many cells as there are column names (tables with no row or no column
\* included)
C1_Rectangular ==
  \A t \in {df, out} :
    /\ Len(t.index) = Len(t.data)
    /\ \A r \in 1..Len(t.data) : Len(t.data[r]) = Len(t.columns)

\* a returned table was assigned back, a column was added to it and a further
\* call returned a table with rows but no column
C1_Witness ==
  /\ chain = 1 /\ cols(df) = MaxCols /\ rows(df) > 0
  /\ last = "select_columns" /\ err = ""
  /\ rows(out) > 0 /\ cols(out) = 0

\* C7: add_column succeeds only if the name is not already a column and the
\* value count fits (none for a table without rows, one per row otherwise);
\* a success appends the name and one value to every row in row order and
\* leaves the row labels and the older cells alone; a failure leaves the
\* table exactly as it was
C7_AddColumn ==
  [][last' = "add_column" =>
       LET fits(name, values) ==
             /\ \A c \in 1..Len(df.columns) : df.columns[c] # name
             /\ IF Len(df.data) = 0 THEN Len(values) = 0
                                    ELSE Len(values) = Len(df.data)
           appended(name, values) ==
             /\ df'.columns = Append(df.columns, name)
             /\ df'.index = df.index
             /\ df'.index_name = df.index_name
             /\ Len(df'.data) = Len(df.data)
             /\ \A r \in 1..Len(df.data) : df'.data[r] = Append(df.data[r], values[r])
           called(name, values) ==
             /\ err' = "" => fits(name, values) /\ appended(name, values)
             /\ err' # "" => df' = df
       IN  called(arg'[1], arg'[2])
    ]_vars

\* a third value was appended to each row of a table that came back from an
\* earlier call
C7_Witness ==
  /\ last = "add_column" /\ err = "" /\ chain = 1
  /\ rows(df) = 1 /\ cols(df) = MaxCols
  /\ df.data[1][MaxCols] = Num(5)

C9_BinaryCombine ==
  last \in {"add", "subtract", "multiply", "divide"} =>
    LET shape == Len(df.data) = Len(arg.data) /\ Len(df.columns) = Len(arg.columns)
        names == df.columns = arg.columns
        f(a, b) == CASE last = "add" -> dadd(a, b)
                     [] last = "subtract" -> dsub(a, b)
                     [] last = "multiply" -> dmul(a, b)
                     [] last = "divide" -> ddiv(a, b)
    IN  /\ err = "" => shape /\ names /\ df.index = arg.index
        /\ ~shape => err = "dataframe::" \o last \o ": shape mismatch"
        /\ shape /\ ~names => err = "dataframe::" \o last \o ": column mismatch"
        /\ shape /\ names /\ df.index # arg.index
             => err = "dataframe::" \o last \o ": index mismatch"
        /\ err = "" =>
             /\ out.columns = df.columns /\ out.index = df.index
             /\ out.index_name = df.index_name
             /\ Len(out.data) = Len(df.data)
             /\ \A r \in 1..Len(df.data) :
                  /\ Len(out.data[r]) = Len(df.columns)
                  /\ \A c \in 1..Len(df.columns) :
                       out.data[r][c] = f(df.data[r][c], arg.data[r][c])

\* operands that differ in the row count and in a column name: the shape is
\* what is reported
C9_Witness ==
  /\ last = "subtract" /\ err = "dataframe::subtract: shape mismatch"
  /\ rows(df) # rows(arg) /\ cols(df) = cols(arg) /\ df.columns # arg.columns

\* C10: dividing by a table fails with no result whenever a cell of the
\* divisor is zero, wherever it is; dividing by the scalar zero fails whatever
\* the table holds; add, subtract and multiply by a scalar never fail, and by
\* an aligned table never fail
C10_DivisionByZero ==
  /\ last = "divide" /\ (\E r \in 1..Len(arg.data) : \E c \in 1..Len(arg.data[r]) :
                           arg.data[r][c] = Num(0))
       => err # "" /\ out = NoTable
  /\ last = "divide_scalar" /\ arg = Num(0)
       => err = "dataframe::divide: division by zero" /\ out = NoTable
  /\ last \in {"add_scalar", "subtract_scalar", "multiply_scalar"} => err = ""
  /\ last \in {"add", "subtract", "multiply"}
       /\ Len(df.data) = Len(arg.data) /\ df.columns = arg.columns /\ df.index = arg.index
       => err = ""

\* the only zero of the divisor is its last cell and all cells before it were
\* divided
C10_Witness ==
  /\ last = "divide" /\ err = "dataframe::divide: division by zero element"
  /\ rows(df) = MaxRows /\ cols(df) = MaxCols
  /\ arg.data[MaxRows][MaxCols] = Num(0) /\ arg.data[1][1] # Num(0)
  /\ df.index = arg.index /\ df.columns = arg.columns

\* C2: from_binary of the stream to_binary wrote succeeds and returns a table
\* with the label, the columns, the index and the cells of the table that was
\* written, for every index type, with and without NaN cells, with no row and
\* with no column
C2_BinaryRoundTrip ==
  last = "from_binary" /\ arg.source = "to_binary" =>
    /\ err = ""
    /\ out.index_name = df.index_name /\ out.columns = df.columns
    /\ out.index = df.index /\ out.data = df.data

\* a DateTime-indexed table with a NaN cell and a label of its own came back
C2_Witness ==
  /\ last = "from_binary" /\ arg.source = "to_binary" /\ err = ""
  /\ df.itype = "DateTime" /\ df.index_name = <<" ", "k">>
  /\ rows(df) = MaxRows /\ cols(df) = MaxCols /\ df.data[1][2] = NaN
  /\ out.data = df.data

\* C4: from_binary fails and returns no table when the stream does not start
\* with the six bytes of the magic tag, when the second column count differs
\* from the column count of the header, and when the stream ends before the
\* last expected byte (of a count, the label, a column name, an index value
\* or a cell)
C4_FromBinaryFails ==
  last = "from_binary" =>
    LET magic == [i \in 1..Len(MAGIC) |-> char_code(MAGIC[i])]
        field == Len(MAGIC) + U64 + U64 + U64 + Len(df.index_name)
        checked(written) ==
          /\ (Len(stream) < Len(magic) \/ SubSeq(stream, 1, Len(magic)) # magic)
               => err = "dataframe::from_binary: invalid file header"
          /\ (/\ Len(stream) = Len(written)
              /\ SubSeq(stream, 1, field) = SubSeq(written, 1, field)
              /\ SubSeq(stream, field + 1, field + U64)
                   # SubSeq(written, field + 1, field + U64))
               => err = "dataframe::from_binary: column metadata mismatch"
          /\ (Len(stream) < Len(written) /\ stream = SubSeq(written, 1, Len(stream)))
               => err \in {"dataframe::from_binary: invalid file header",
                           "dataframe::binary_read: failed to read data",
                           "dataframe::binary_read: failed to read string"}
          /\ err # "" => out = NoTable
    IN  checked(arg.written)

\* the stream of a table with cells ended one byte before the end of the
\* last cell
C4_Witness ==
  /\ last = "from_binary" /\ arg.source = "corrupt"
  /\ err = "dataframe::binary_read: failed to read data" /\ out = NoTable
  /\ rows(df) = MaxRows /\ cols(df) = MaxCols
  /\ Len(stream) + 1 = Len(arg.written)

C5_FromCsvRows ==
  LET lines == getlines(csv, "\n")
      nonblank(line) == trim(line) # <<>>
      sign_dropped(s) == IF s # <<>> /\ s[1] \in {"+", "-"} THEN Tail(s) ELSE s
      digits(s) == s # <<>> /\ \A i \in 1..Len(s) : isdigit(s[i])
      mantissa(s) ==
        /\ \E i \in 1..Len(s) : isdigit(s[i])
        /\ \A i \in 1..Len(s) : isdigit(s[i]) \/ s[i] = "."
        /\ Cardinality({i \in 1..Len(s) : s[i] = "."}) <= 1
      decimal(u) ==
        \E m \in 1..Len(u) :
          /\ mantissa(SubSeq(u, 1, m))
          /\ \/ m = Len(u)
             \/ /\ u[m + 1] \in {"e", "E"}
                /\ digits(sign_dropped(SubSeq(u, m + 2, Len(u))))
      number(field) ==
        \/ sign_dropped(field) \in {<<"i", "n", "f">>, <<"n", "a", "n">>}
        \/ decimal(sign_dropped(field))
      first == IF arg.has_index THEN 2 ELSE 1
      bad(fields, count) ==
        \/ Len(fields) # count
        \/ \E c \in first..Len(fields) : fields[c] # <<>> /\ ~number(fields[c])
        \/ arg.has_index /\ ~parse_token(df.itype, fields[1]).ok
      rows_read(data, count) ==
        /\ (\E k \in 1..Len(data) : bad(split_csv(data[k]), count))
             => err # "" /\ out = NoTable
        /\ err = "" =>
             /\ Len(out.data) = Len(data)
             /\ \A k \in 1..Len(data) : \A c \in first..count :
                  split_csv(data[k])[c] = <<>> => isnan(out.data[k][c - first + 1])
  IN  (/\ last = "from_csv" /\ lines # <<>>
       /\ Len(split_csv(lines[1])) >= first)
      => rows_read(SelectSeq(Tail(lines), nonblank), Len(split_csv(lines[1])))

\* C6: from_csv without an index column makes every header field a column,
\* labels the index "index" and numbers the non-blank data lines 0, 1, ...;
\* with an index column the first header field is the label and the others
\* are the columns in their order
C6_FromCsvIndex ==
  LET lines == getlines(csv, "\n")
      nonblank(line) == trim(line) # <<>>
      numbered(header, count) ==
        /\ out.columns = header /\ out.index_name = <<"i", "n", "d", "e", "x">>
        /\ out.index = [k \in 1..count |-> k - 1]
        /\ Len(out.data) = count
      labelled(header) ==
        out.index_name = header[1] /\ out.columns = Tail(header)
  IN  last = "from_csv" /\ err = "" =>
        IF arg.has_index THEN labelled(split_csv(lines[1]))
        ELSE numbered(split_csv(lines[1]), Len(SelectSeq(Tail(lines), nonblank)))

\* two data lines among blank ones were numbered 0 and 1
C6_Witness ==
  /\ last = "from_csv" /\ err = "" /\ arg.source = "text" /\ ~arg.has_index
  /\ Len(getlines(csv, "\n")) = 5
  /\ out.index = <<0, 1>> /\ out.columns = <<<<"x">>>>

\* C11: select_rows(values) throws when one of the values is not in the index;
\* otherwise it returns Len(values) rows, the i-th being the input row at the
\* lowest position whose index value is values[i], with that row's index
\* value and cells (so rows come in the requested order and a value asked for
\* twice gives its row twice); the columns and the label are the input's
C11_SelectRows ==
  last = "select_rows" =>
    IF \E i \in 1..Len(arg) : \A p \in 1..rows(df) : df.index[p] # arg[i]
    THEN err # "" /\ out = NoTable
    ELSE /\ err = ""
         /\ out.columns = df.columns /\ out.index_name = df.index_name
         /\ Len(out.index) = Len(arg) /\ Len(out.data) = Len(arg)
         /\ \A i \in 1..Len(arg) :
              \E p \in 1..rows(df) :
                /\ df.index[p] = arg[i]
                /\ \A q \in 1..(p - 1) : df.index[q] # arg[i]
                /\ out.index[i] = arg[i]
                /\ out.data[i] = df.data[p]

\* two rows with different index values and different cells are asked for in
\* reverse order, or the first of two rows with the same index value and
\* different cells is asked for twice
C11_Witness ==
  /\ last = "select_rows" /\ err = "" /\ rows(df) = 2 /\ Len(arg) = 2
  /\ df.data[1] # df.data[2]
  /\ \/ df.index[1] # df.index[2] /\ arg = <<df.index[2], df.index[1]>>
     \/ df.index[1] = df.index[2] /\ arg = <<df.index[1], df.index[1]>>

\* C12: slice_rows_range(start, end, inclusive_end) never throws and, with
\* lo the smaller and hi the larger of start and end, returns the rows whose
\* index value i has lo <= i and (i <= hi when inclusive_end, i < hi
\* otherwise), each with its index value and cells, in the order they have in
\* the input, whatever the order and the repeats of the index; with
\* start = end and an exclusive end no row is returned
C12_SliceRowsRange ==
  last = "slice_rows_range" =>
    LET lo == IF arg[1] <= arg[2] THEN arg[1] ELSE arg[2]
        hi == IF arg[1] <= arg[2] THEN arg[2] ELSE arg[1]
        kept == {p \in 1..rows(df) :
                   /\ lo <= df.index[p]
                   /\ IF arg[3] THEN df.index[p] <= hi ELSE df.index[p] < hi}
    IN  /\ err = ""
        /\ out.columns = df.columns /\ out.index_name = df.index_name
        /\ Len(out.index) = Cardinality(kept) /\ Len(out.data) = Cardinality(kept)
        /\ \A p \in kept :
             LET i == Cardinality({q \in kept : q <= p})
             IN  out.index[i] = df.index[p] /\ out.data[i] = df.data[p]
        /\ (arg[1] = arg[2] /\ ~arg[3]) => rows(out) = 0

\* the bounds are given in reverse order, the index is not sorted, and one
\* of the two rows is returned
C12_Witness ==
  /\ last = "slice_rows_range" /\ arg = <<1, 0, FALSE>>
  /\ df.index = <<1, 0>> /\ cols(df) > 0
  /\ out.index = <<0>> /\ out.data = <<df.data[2]>>

\* C13: head_rows, tail_rows, head_columns and tail_columns never throw; with
\* a count at or above the number of rows (columns) the result is the input;
\* with count 0 it has no row (the columns and the label are kept) or no
\* column (the index and the label are kept, every row has no cell);
\* otherwise it holds the first (head) or the last (tail) count rows
\* (columns) of the input, in their order, and nothing else is changed
C13_HeadTail ==
  LET first(s, k) == SubSeq(s, 1, k)
      final(s, k) == SubSeq(s, Len(s) - k + 1, Len(s))
      byRows(Part(_, _)) ==
        /\ arg >= rows(df) => out = df
        /\ arg = 0 => /\ out.index = <<>> /\ out.data = <<>>
                      /\ out.columns = df.columns /\ out.index_name = df.index_name
        /\ (0 < arg /\ arg < rows(df)) =>
             out = [df EXCEPT !.index = Part(df.index, arg), !.data = Part(df.data, arg)]
      byColumns(Part(_, _)) ==
        /\ arg >= cols(df) => out = df
        /\ arg = 0 => /\ out.columns = <<>>
                      /\ out.index = df.index /\ out.index_name = df.index_name
                      /\ out.data = [r \in 1..rows(df) |-> <<>>]
        /\ (0 < arg /\ arg < cols(df)) =>
             out = [df EXCEPT !.columns = Part(df.columns, arg),
                              !.data = [r \in 1..rows(df) |-> Part(df.data[r], arg)]]
  IN  /\ last \in {"head_rows", "tail_rows", "head_columns", "tail_columns"} => err = ""
      /\ last = "head_rows" => byRows(first)
      /\ last = "tail_rows" => byRows(final)
      /\ last = "head_columns" => byColumns(first)
      /\ last = "tail_columns" => byColumns(final)

\* the last two of three different rows, or the last two of three columns
\* with different cells, are taken
C13_Witness ==
  /\ last \in {"tail_rows", "tail_columns"} /\ arg = 2
  /\ \/ /\ last = "tail_rows" /\ rows(df) = 3 /\ cols(df) = 1
        /\ df.data[1] # df.data[2] /\ df.data[2] # df.data[3]
        /\ out.index = <<1, 2>> /\ out.data = <<df.data[2], df.data[3]>>
     \/ /\ last = "tail_columns" /\ cols(df) = 3 /\ rows(df) = 1
        /\ df.data[1][1] # df.data[1][2] /\ df.data[1][2] # df.data[1][3]
        /\ out.columns = <<df.columns[2], df.columns[3]>>
        /\ out.data = <<<<df.data[1][2], df.data[1][3]>>>>

\* C14: a sort that returns gives a permutation of the rows (columns) of the
\* input, each row with its index value and cells (each column with its name
\* and cells); the real keys do not decrease when ascending and do not
\* increase when descending; NaN keys come after every real key when
\* ascending and before every real key when descending; two entries with
\* equal keys, or with two NaN keys, keep their order of the input
C14_Sorts ==
  LET Bijections(n) == {p \in [1..n -> 1..n] : \A i, j \in 1..n : p[i] = p[j] => i = j}
      ordered(n, p, Key(_), ascending) ==
        \A i, j \in 1..n :
          i < j =>
            LET a == Key(p[i])
                b == Key(p[j])
            IN  /\ (~isnan(a) /\ ~isnan(b)) =>
                     IF ascending THEN ~dlt(b, a) ELSE ~dgt(b, a)
                /\ IF ascending THEN isnan(a) => isnan(b) ELSE isnan(b) => isnan(a)
                /\ (deq(a, b) \/ (isnan(a) /\ isnan(b))) => p[i] < p[j]
      rowsSorted(ci) ==
        LET key(r) == df.data[r][ci]
        IN  /\ out.columns = df.columns /\ out.index_name = df.index_name
            /\ Len(out.index) = rows(df) /\ Len(out.data) = rows(df)
            /\ \E p \in Bijections(rows(df)) :
                 /\ \A i \in 1..rows(df) :
                      out.index[i] = df.index[p[i]] /\ out.data[i] = df.data[p[i]]
                 /\ ordered(rows(df), p, key, arg[2])
      columnsSorted(ri) ==
        LET key(c) == df.data[ri][c]
        IN  /\ out.index = df.index /\ out.index_name = df.index_name
            /\ Len(out.columns) = cols(df) /\ Len(out.data) = rows(df)
            /\ \E p \in Bijections(cols(df)) :
                 /\ \A i \in 1..cols(df) : out.columns[i] = df.columns[p[i]]
                 /\ \A r \in 1..rows(df) :
                      out.data[r] = [i \in 1..cols(df) |-> df.data[r][p[i]]]
                 /\ ordered(cols(df), p, key, arg[2])
  IN  /\ (last = "sort_rows_by_column" /\ err = "") =>
           \E ci \in 1..cols(df) :
             /\ df.columns[ci] = arg[1]
             /\ \A cj \in 1..(ci - 1) : df.columns[cj] # arg[1]
             /\ rowsSorted(ci)
      /\ (last = "sort_columns_by_row" /\ err = "") =>
           \E ri \in 1..rows(df) :
             /\ df.index[ri] = arg[1]
             /\ \A rj \in 1..(ri - 1) : df.index[rj] # arg[1]
             /\ columnsSorted(ri)

\* a descending sort of three rows whose keys are 1, NaN, 1: the NaN row
\* comes first and the two rows with key 1 keep their order
C14_Witness ==
  /\ last = "sort_rows_by_column" /\ err = "" /\ arg[2] = FALSE
  /\ df.data = <<<<Num(1)>>, <<NaN>>, <<Num(1)>>>>
  /\ out.index = <<1, 0, 2>>

\* C15: rolling_mean(w) on n rows throws when w = 0 or w > n; otherwise it
\* returns n - w + 1 rows, row i with the index value of input row i + w - 1,
\* and cell (i, c) is NaN exactly when one of the input cells (i .. i + w - 1, c)
\* is NaN and is the mean of these w cells otherwise; rolling_std and
\* rolling_rms have the same row count, the same index and the same NaN cells
C15_Rolling ==
  last \in {"rolling_mean", "rolling_std", "rolling_rms"} =>
    LET window(i, c) == [k \in 1..arg |-> df.data[i + k - 1][c]]
        missing(i, c) == \E k \in 1..arg : isnan(window(i, c)[k])
    IN  IF arg = 0 \/ arg > rows(df)
        THEN err # "" /\ out = NoTable
        ELSE /\ err = ""
             /\ out.columns = df.columns
             /\ Len(out.index) = rows(df) - arg + 1 /\ Len(out.data) = rows(df) - arg + 1
             /\ \A i \in 1..(rows(df) - arg + 1) :
                  /\ out.index[i] = df.index[i + arg - 1]
                  /\ Len(out.data[i]) = cols(df)
                  /\ \A c \in 1..cols(df) :
                       /\ isnan(out.data[i][c]) <=> missing(i, c)
                       /\ (last = "rolling_mean" /\ ~missing(i, c)) =>
                            out.data[i][c] = ddiv(SumSeq(window(i, c)), Num(arg))

\* rolling_mean(1) of the column +inf, 0: the second window holds the single
\* cell 0 and the returned cell is NaN
C15_Witness ==
  /\ last = "rolling_mean" /\ arg = 1 /\ err = ""
  /\ df.data = <<<<Inf(1)>>, <<Num(0)>>>>
  /\ out.data = <<<<Inf(1)>>, <<NaN>>>>

\* C16: exponential_moving_average(alpha) throws unless 0 < alpha < 1;
\* otherwise the result has the columns, the index and the label of the
\* input and as many cells; in every column a NaN cell gives a NaN cell, the
\* first cell that is not NaN is returned as it is, and every later cell v
\* that is not NaN gives alpha * v + (1 - alpha) * e, where e is the cell
\* returned at the closest earlier row whose input cell is not NaN
C16_ExponentialMovingAverage ==
  last = "exponential_moving_average" =>
    IF ~(dgt(arg, Num(0)) /\ dlt(arg, Num(1)))
    THEN err # "" /\ out = NoTable
    ELSE /\ err = ""
         /\ out.columns = df.columns /\ out.index = df.index
         /\ out.index_name = df.index_name /\ Len(out.data) = rows(df)
         /\ \A r \in 1..rows(df) :
              /\ Len(out.data[r]) = cols(df)
              /\ \A c \in 1..cols(df) :
                   LET v == df.data[r][c]
                       earlier == {q \in 1..(r - 1) : ~isnan(df.data[q][c])}
                   IN  IF isnan(v) THEN isnan(out.data[r][c])
                       ELSE IF earlier = {} THEN out.data[r][c] = v
                       ELSE \E q \in earlier :
                              /\ \A p \in earlier : p <= q
                              /\ out.data[r][c] =
                                   dadd(dmul(arg, v), dmul(dsub(Num(1), arg), out.data[q][c]))

\* alpha = 1/2 on the column 1, NaN, 2: the result is 1, NaN, 3/2
C16_Witness ==
  /\ last = "exponential_moving_average" /\ arg = Rat(1, 2) /\ err = ""
  /\ df.data = <<<<Num(1)>>, <<NaN>>, <<Num(2)>>>>
  /\ out.data = <<<<Num(1)>>, <<NaN>>, <<Rat(3, 2)>>>>

\* C17: differences, log_changes and proportional_changes throw on a table
\* with fewer than two rows; differences returns on every table with two
\* rows or more; a call that returns gives one row less, the columns and the
\* label of the input, the index of the input without its first entry, and
\* in cell (r, c) a value computed from the input cells (r, c) and (r + 1, c)
\* alone: their difference, the difference of their logarithms, or their
\* difference divided by the first; differences of 100, 110, 121 is 10, 11
C17_Changes ==
  last \in {"differences", "log_changes", "proportional_changes"} =>
    LET change(prev, curr) ==
          IF last = "differences" THEN dsub(curr, prev)
          ELSE IF last = "log_changes" THEN dsub(dlog(curr), dlog(prev))
          ELSE ddiv(dsub(curr, prev), prev)
    IN  /\ rows(df) < 2 => err # "" /\ out = NoTable
        /\ (last = "differences" /\ rows(df) >= 2) => err = ""
        /\ err = "" =>
             /\ out.columns = df.columns /\ out.index_name = df.index_name
             /\ out.index = Tail(df.index)
             /\ Len(out.data) = rows(df) - 1
             /\ \A r \in 1..(rows(df) - 1) :
                  out.data[r] = [c \in 1..cols(df) |->
                                   change(df.data[r][c], df.data[r + 1][c])]
        /\ (last = "differences"
              /\ df.data = <<<<Num(100)>>, <<Num(110)>>, <<Num(121)>>>>) =>
             out.data = <<<<Num(10)>>, <<Num(11)>>>>

\* differences of the column 100, 110, 121 returned two rows
C17_Witness ==
  /\ last = "differences" /\ err = ""
  /\ df.data = <<<<Num(100)>>, <<Num(110)>>, <<Num(121)>>>>
  /\ df.index = <<0, 1, 2>> /\ out.index = <<1, 2>> /\ rows(out) = 2

\* C18: log_changes throws and returns no table when a cell of the input, in
\* any row and column, is zero or negative; proportional_changes throws and
\* returns no table when a cell of a row other than the last is zero, and on
\* a table of two rows or more whose zeros are all in the last row it returns
C18_ChangesFail ==
  LET zero(r) == \E c \in 1..cols(df) : deq(df.data[r][c], Num(0))
  IN  /\ (last = "log_changes"
            /\ \E r \in 1..rows(df) : \E c \in 1..cols(df) : dle(df.data[r][c], Num(0))) =>
           err # "" /\ out = NoTable
      /\ (last = "proportional_changes" /\ \E r \in 1..(rows(df) - 1) : zero(r)) =>
           err # "" /\ out = NoTable
      /\ (last = "proportional_changes" /\ rows(df) >= 2
            /\ \A r \in 1..(rows(df) - 1) : ~zero(r)) =>
           err = "" /\ rows(out) = rows(df) - 1

\* proportional_changes returned for a column of three rows whose last cell
\* is the only zero
C18_Witness ==
  /\ last = "proportional_changes" /\ err = "" /\ rows(df) = 3 /\ cols(df) = 1
  /\ df.data[3] = <<Num(0)>> /\ rows(out) = 2

\* C19: correlation_matrix and covariance_matrix throw when the table has no
\* column or fewer than two rows without a NaN cell; otherwise the result
\* has the input's column names as its columns and as its index, one row and
\* one cell per column, and is the result for the table without the rows
\* that hold a NaN cell in any column; every diagonal entry of the
\* correlation matrix is 1, and its entry for two different columns is NaN
\* when one of them is constant over the rows without a NaN cell
C19_Matrices ==
  last \in {"correlation_matrix", "covariance_matrix"} =>
    LET valid == {r \in 1..rows(df) : \A c \in 1..cols(df) : ~isnan(df.data[r][c])}
        constant(c) == \A r, q \in valid : df.data[r][c] = df.data[q][c]
        cleaned(t) == IF last = "correlation_matrix" THEN correlation_matrix(t)
                      ELSE covariance_matrix(t)
    IN  IF cols(df) = 0 \/ Cardinality(valid) < 2
        THEN err # "" /\ out = NoTable
        ELSE /\ err = ""
             /\ out.columns = df.columns /\ out.index = df.columns
             /\ Len(out.data) = cols(df)
             /\ \A i \in 1..cols(df) : Len(out.data[i]) = cols(df)
             /\ out = cleaned(remove_rows_with_nan(df).t).t
             /\ last = "correlation_matrix" =>
                  \A i, j \in 1..cols(df) :
                    /\ i = j => out.data[i][j] = Num(1)
                    /\ (i # j /\ (constant(i) \/ constant(j))) => isnan(out.data[i][j])

\* the correlation matrix of four rows and three columns: the last row has a
\* NaN in the third column and 3 in the others, the third column is constant
\* over the first three rows, the first two columns run in opposite order
C19_Witness ==
  /\ last = "correlation_matrix" /\ err = ""
  /\ df.data = <<<<Num(0), Num(2), Num(1)>>, <<Num(1), Num(1), Num(1)>>,
                 <<Num(2), Num(0), Num(1)>>, <<Num(3), Num(3), NaN>>>>
  /\ out.data = <<<<Num(1), Num(-1), NaN>>, <<Num(-1), Num(1), NaN>>,
                  <<NaN, NaN, Num(1)>>>>

\* C20: in the table correlation_matrix, spearman_correlation_matrix,
\* kendall_tau_matrix or covariance_matrix returns, the entries (i, j) and
\* (j, i) are the same value or both NaN, and every diagonal entry of the
\* three correlation matrices is 1
C20_Symmetric ==
  (/\ last \in {"correlation_matrix", "spearman_correlation_matrix",
                "kendall_tau_matrix", "covariance_matrix"}
   /\ err = "") =>
    /\ Len(out.data) = cols(df)
    /\ \A i, j \in 1..cols(df) : out.data[i][j] = out.data[j][i]
    /\ last # "covariance_matrix" => \A i \in 1..cols(df) : out.data[i][i] = Num(1)

\* a Spearman matrix of three columns in which two entries off the diagonal
\* are a number other than 1 and the others are NaN
C20_Witness ==
  /\ last = "spearman_correlation_matrix" /\ err = "" /\ cols(df) = 3
  /\ ~isnan(out.data[1][2]) /\ out.data[1][2] # Num(1)
  /\ out.data[2][1] = out.data[1][2]
  /\ isnan(out.data[1][3]) /\ isnan(out.data[3][1])

\* C21: kendall_tau_matrix never throws; for two different columns i and j,
\* over the m rows in which both cells are not NaN, with concordant the
\* number of row pairs ordered the same way in both columns, discordant the
\* number ordered in opposite ways and tied the number with equal cells in
\* one of the columns, concordant + discordant + tied = m (m - 1) / 2, the
\* entry is (concordant - discordant) / (concordant + discordant) and lies in
\* [-1, 1], and it is NaN when m < 2 or concordant + discordant = 0, for
\* every table, those with fewer than two rows included
C21_KendallTau ==
  last = "kendall_tau_matrix" =>
    LET usable(i, j) == {r \in 1..rows(df) : ~isnan(df.data[r][i]) /\ ~isnan(df.data[r][j])}
        pairs(i, j) == {ab \in usable(i, j) \X usable(i, j) : ab[1] < ab[2]}
        up(c, ab) == dlt(df.data[ab[1]][c], df.data[ab[2]][c])
        down(c, ab) == dgt(df.data[ab[1]][c], df.data[ab[2]][c])
        level(c, ab) == deq(df.data[ab[1]][c], df.data[ab[2]][c])
        concordant(i, j) == Cardinality({ab \in pairs(i, j) :
                                           \/ up(i, ab) /\ up(j, ab)
                                           \/ down(i, ab) /\ down(j, ab)})
        discordant(i, j) == Cardinality({ab \in pairs(i, j) :
                                           \/ up(i, ab) /\ down(j, ab)
                                           \/ down(i, ab) /\ up(j, ab)})
        tied(i, j) == Cardinality({ab \in pairs(i, j) : level(i, ab) \/ level(j, ab)})
        m(i, j) == Cardinality(usable(i, j))
    IN  /\ err = ""
        /\ Len(out.data) = cols(df)
        /\ \A i, j \in 1..cols(df) :
             i # j =>
               /\ 2 * (concordant(i, j) + discordant(i, j) + tied(i, j))
                    = m(i, j) * (m(i, j) - 1)
               /\ IF m(i, j) < 2 \/ concordant(i, j) + discordant(i, j) = 0
                  THEN isnan(out.data[i][j])
                  ELSE /\ out.data[i][j] = Rat(concordant(i, j) - discordant(i, j),
                                               concordant(i, j) + discordant(i, j))
                       /\ dle(Num(-1), out.data[i][j]) /\ dle(out.data[i][j], Num(1))


\* two columns that both hold +inf, +inf, 0: the pair of the first two rows
\* is tied in both columns, the other two pairs are ordered the same way,
\* and the entry returned is 1/3
C21_Witness ==
  /\ last = "kendall_tau_matrix" /\ err = ""
  /\ df.data = <<<<Inf(1), Inf(1)>>, <<Inf(1), Inf(1)>>, <<Num(0), Num(0)>>>>
  /\ out.data[1][2] = Rat(1, 3)

\* C22: in spearman_correlation_matrix the m cells of a column that are not
\* NaN get the ranks 1..m in ascending order of value, equal cells the mean
\* of the positions they occupy together: the rank of a cell is the number
\* of smaller cells plus half of one more than the number of equal cells; so
\* the ranks of a column add up to m (m + 1) / 2, equal cells have equal
\* ranks and a smaller cell a smaller rank; a NaN cell stays NaN; and when
\* every column has two cells that are not NaN the call returns, or throws,
\* what correlation_matrix does on the table of ranks
C22_Spearman ==
  LET present(c) == {r \in 1..rows(df) : ~isnan(df.data[r][c])}
      smaller(r, c) == Cardinality({q \in present(c) : dlt(df.data[q][c], df.data[r][c])})
      equal(r, c) == Cardinality({q \in present(c) : deq(df.data[q][c], df.data[r][c])})
      rk == [c \in 1..cols(df) |-> Ranks(df, c)]
      ranked == [df EXCEPT !.data = [r \in 1..rows(df) |->
                                       [c \in 1..cols(df) |-> rk[c][r]]]]
      same(r) == r.t = out /\ r.err = err
  IN  /\ \A c \in 1..cols(df) :
           /\ \A r \in 1..rows(df) :
                rk[c][r] = IF r \in present(c)
                           THEN Rat(2 * smaller(r, c) + equal(r, c) + 1, 2)
                           ELSE NaN
           /\ SumSeq([k \in 1..rows(df) |->
                        IF k \in present(c) THEN rk[c][k] ELSE Num(0)])
                = Rat(Cardinality(present(c)) * (Cardinality(present(c)) + 1), 2)
           /\ \A r, q \in present(c) :
                /\ deq(df.data[r][c], df.data[q][c]) => rk[c][r] = rk[c][q]
                /\ dlt(df.data[r][c], df.data[q][c]) => dlt(rk[c][r], rk[c][q])
      /\ (/\ last = "spearman_correlation_matrix"
          /\ cols(df) > 0 /\ rows(df) >= 2
          /\ \A c \in 1..cols(df) : Cardinality(present(c)) >= 2) =>
           same(correlation_matrix(ranked))

\* a Spearman matrix of a frame of four rows whose second column is 1, 1, 1
\* and NaN: its ranks are 2, 2, 2 and NaN
C22_Witness ==
  /\ last = "spearman_correlation_matrix" /\ err = "" /\ rows(df) = 4 /\ cols(df) = 2
  /\ [r \in 1..4 |-> df.data[r][2]] = <<Num(1), Num(1), Num(1), NaN>>
  /\ Ranks(df, 2) = <<Num(2), Num(2), Num(2), NaN>>
  /\ out.data[1][1] = Num(1) /\ isnan(out.data[1][2])

\* C23: column_percentiles on a table with columns fails exactly when the
\* list of percentiles is empty or one of them lies outside [0, 100];
\* otherwise, over the sorted cells v of a column that are not NaN, the
\* entry of percentile p is NaN when there are none, v[0] for p = 0, the
\* last of v for p = 100, and else the interpolation between v[floor(k)]
\* and v[ceil(k)] at k = p / 100 * (count - 1), both positions within v,
\* and every entry lies between the smallest and the largest cell
C23_Percentiles ==
  LET v(c) == std_sort(ColumnValues(df, c))
      count(c) == Len(v(c))
      k(p, c) == dmul(ddiv(p, Num(100)), Num(count(c) - 1))
      floor(x) == x.n \div x.d
      ceil(x) == -((-x.n) \div x.d)
      between(p, c) ==
        dadd(v(c)[floor(k(p, c)) + 1],
             dmul(dsub(k(p, c), Num(floor(k(p, c)))),
                  dsub(v(c)[ceil(k(p, c)) + 1], v(c)[floor(k(p, c)) + 1])))
      outside(p) == ~(dle(Num(0), p) /\ dle(p, Num(100)))
  IN  (last = "column_percentiles" /\ cols(df) > 0) =>
        /\ err # "" <=> (arg = <<>> \/ \E i \in 1..Len(arg) : outside(arg[i]))
        /\ err = "" =>
             /\ rows(out) = Len(arg) /\ out.columns = df.columns
             /\ \A i \in 1..Len(arg), c \in 1..cols(df) :
                  IF count(c) = 0 THEN isnan(out.data[i][c])
                  ELSE /\ arg[i] = Num(0) => out.data[i][c] = v(c)[1]
                       /\ arg[i] = Num(100) => out.data[i][c] = v(c)[count(c)]
                       /\ arg[i] \notin {Num(0), Num(100)} =>
                            /\ floor(k(arg[i], c)) \in 0..count(c) - 1
                            /\ ceil(k(arg[i], c)) \in 0..count(c) - 1
                            /\ out.data[i][c] = between(arg[i], c)
                       /\ dle(v(c)[1], out.data[i][c])
                       /\ dle(out.data[i][c], v(c)[count(c)])

\* the median of a column +inf, +inf, 0 came out as NaN
C23_Witness ==
  /\ last = "column_percentiles" /\ err = "" /\ arg = <<Num(50)>>
  /\ rows(df) = 3
  /\ [r \in 1..3 |-> df.data[r][1]] = <<Inf(1), Inf(1), Num(0)>>
  /\ isnan(out.data[1][1])

C25_ColumnStats ==
  LET present(c) == {r \in 1..rows(df) : ~isnan(df.data[r][c])}
      n(c) == Cardinality(present(c))
      \* the k-th smallest of the cells of column c that are not NaN
      os(c, k) ==
        LET r == CHOOSE q \in present(c) :
                   /\ Cardinality({p \in present(c) : dlt(df.data[p][c], df.data[q][c])}) < k
                   /\ Cardinality({p \in present(c) : dle(df.data[p][c], df.data[q][c])}) >= k
        IN  df.data[r][c]
      row(label) == CHOOSE i \in 1..Len(out.index) : out.index[i] = label
      stat(label, c) == out.data[row(label)][c]
      middle(c) == IF n(c) % 2 = 1 THEN os(c, (n(c) + 1) \div 2)
                   ELSE ddiv(dadd(os(c, n(c) \div 2), os(c, n(c) \div 2 + 1)), Num(2))
  IN  /\ \A c \in 1..cols(df) :
           compute_median(ColumnValues(df, c)) = IF n(c) = 0 THEN NaN ELSE middle(c)
      /\ last = "column_stats_dataframe" =>
        /\ err = ""
        /\ out.index = <<<<"n">>, <<"m", "e", "d", "i", "a", "n">>, <<"m", "e", "a", "n">>,
                         <<"s", "d">>, <<"s", "k", "e", "w">>,
                         <<"e", "x", "_", "k", "u", "r", "t", "o", "s", "i", "s">>,
                         <<"m", "i", "n">>, <<"m", "a", "x">>>>
        /\ out.columns = df.columns
        /\ \A c \in 1..cols(df) :
             /\ stat(<<"n">>, c) = Num(n(c))
             /\ IF n(c) = 0
                THEN \A i \in 2..8 : isnan(out.data[i][c])
                ELSE /\ stat(<<"m", "e", "d", "i", "a", "n">>, c) = middle(c)
                     /\ stat(<<"m", "i", "n">>, c) = os(c, 1)
                     /\ stat(<<"m", "a", "x">>, c) = os(c, n(c))
             /\ n(c) <= 1 => isnan(stat(<<"s", "d">>, c))
             /\ n(c) <= 2 => isnan(stat(<<"s", "k", "e", "w">>, c))
             /\ n(c) <= 3 => isnan(stat(<<"e", "x", "_", "k", "u", "r", "t", "o", "s", "i", "s">>, c))

\* statistics of a frame of four rows whose first column is 1, 1, 1 and NaN
\* and whose second column is +inf, +inf, 0 and 3: the first has three
\* cells, the median 1 and no ex_kurtosis; the median of the second is the
\* average of 3 and +inf
C25_Witness ==
  /\ last = "column_stats_dataframe" /\ err = "" /\ rows(df) = 4 /\ cols(df) = 2
  /\ df.data = <<<<Num(1), Inf(1)>>, <<Num(1), Inf(1)>>, <<Num(1), Num(0)>>, <<NaN, Num(3)>>>>
  /\ out.data[1] = <<Num(3), Num(4)>>
  /\ out.data[2] = <<Num(1), Inf(1)>>
  /\ out.data[3] = <<Num(1), Inf(1)>>
  /\ out.data[4][1] = Num(0)
  /\ isnan(out.data[6][1])
  /\ out.data[7] = <<Num(1), Num(0)>> /\ out.data[8] = <<Num(1), Inf(1)>>

\* C26: in the loops of rolling_mean, rolling_std and rolling_rms with
\* window w, after row r of column c has been processed (its value added,
\* the value of row r - w removed), valid_counts[c] is the number of cells
\* that are not NaN among the rows max(0, r - w + 1)..r, sums[c] is the sum
\* of exactly these cells and sums_sq[c] the sum of their squares; the count
\* stays within 0..w
C26_Accumulators ==
  LET inside(r, c) == {q \in 1..r : q > r - arg /\ ~isnan(df.data[q][c])}
      cells(r, c, f(_)) == [q \in 1..r |-> IF q \in inside(r, c) THEN f(df.data[q][c])
                                           ELSE Num(0)]
      same(x) == x
      square(x) == dmul(x, x)
  IN  (/\ last \in {"rolling_mean", "rolling_std", "rolling_rms"}
       /\ arg \in 1..rows(df)) =>
        \A c \in 1..cols(df), r \in 1..rows(df) :
          /\ Accumulate(df, arg, c)[r].valid_counts = Cardinality(inside(r, c))
          /\ Accumulate(df, arg, c)[r].valid_counts \in 0..arg
          /\ Accumulate(df, arg, c)[r].sums = SumSeq(cells(r, c, same))
          /\ Accumulate(df, arg, c)[r].sums_sq = SumSeq(cells(r, c, square))

\* a rolling mean with window 2 over a column +inf, 0, 1: after the third
\* row the window holds 0 and 1 and the running sum is NaN, and so is the
\* mean, where the window's mean is 1/2
C26_Witness ==
  /\ last = "rolling_mean" /\ arg = 2 /\ err = ""
  /\ cols(df) = 1 /\ rows(df) = 3
  /\ [r \in 1..3 |-> df.data[r][1]] = <<Inf(1), Num(0), Num(1)>>
  /\ Accumulate(df, 2, 1)[3].valid_counts = 2
  /\ isnan(Accumulate(df, 2, 1)[3].sums)
  /\ isnan(out.data[2][1])

C28_ReadsWithinVectors ==
  LET x == [r \in 1..rows(df) |-> df.data[r][1]]
      abs_vals == [i \in 1..Len(x) |-> IF dlt(x[i], Num(0)) THEN dneg(x[i]) ELSE x[i]]
      sq_vals == [i \in 1..Len(x) |-> dmul(x[i], x[i])]
  IN  (last = "print_autocorr_table" /\ arg >= 1) =>
        \A i \in 1..Len(out) :
          /\ out[i][1] - 1 < Len(autocorrelations(x, arg))
          /\ out[i][1] - 1 < Len(autocorrelations(abs_vals, arg))
          /\ out[i][1] - 1 < Len(autocorrelations(sq_vals, arg))

\* the table of two lags for the series 0, 1: the vectors hold one entry,
\* the line of lag 1 is written, and the run ends at the read for lag 2
C28_Witness ==
  /\ last = "print_autocorr_table" /\ arg = 2 /\ err = "terminated"
  /\ cols(df) = 1 /\ df.data = <<<<Num(0)>>, <<Num(1)>>>>
  /\ Len(out) = 2
  /\ out[1] = <<1, Rat(-1, 2), Rat(-1, 2), Rat(-1, 2)>>
  /\ out[2] = <<2>>

\* C29: if the column names of a table are pairwise distinct and not empty,
\* so are those of every table that select_columns, head_columns,
\* tail_columns, sort_columns_by_row or remove_columns_with_nan returns for
\* it and those it has after add_column; and those of every table returned
\* by from_vectors or from_csv
C29_ColumnNames ==
  [][LET named(t) == /\ \A i \in 1..cols(t) : t.columns[i] # <<>>
                     /\ \A i, j \in 1..cols(t) : t.columns[i] = t.columns[j] => i = j
     IN  err' = "" =>
           /\ (/\ last' \in {"select_columns", "head_columns", "tail_columns",
                             "sort_columns_by_row", "remove_columns_with_nan"}
               /\ named(df)) => named(out')
           /\ (last' = "add_column" /\ named(df)) => named(df')
           /\ last' = "from_vectors" => named(df')
           /\ last' = "from_csv" => named(out')]_vars

\* from_vectors returned a table with two columns named a
C29_Witness ==
  /\ last = "from_vectors" /\ err = ""
  /\ df.columns = <<<<"a">>, <<"a">>>>

\* C30: for every Date and DateTime that format_iso_date and
\* format_iso_datetime accept, of whatever year, parsing the formatted text
\* gives back the value; and a timezone designator (Z, +HH:MM or -HH:MM)
\* after a date-time text is accepted and leaves the parsed fields as they
\* are
C30_DateRoundTrip ==
  LET designator(tz) ==
        \/ tz \in {<<>>, <<"Z">>}
        \/ /\ Len(tz) = 6 /\ tz[1] \in {"+", "-"} /\ tz[4] = ":"
           /\ \A i \in {2, 3, 5, 6} : tz[i] \in {"0", "1", "2", "3", "4", "5", "6", "7", "8", "9"}
  IN  /\ last = "parse_iso_date" => err = "" /\ out = arg.value
      /\ (last = "parse_iso_datetime" /\ designator(arg.tz)) => err = "" /\ out = arg.value

\* the first day of the year 10000 was formatted as 10000-01-01, and
\* parse_iso_date refused the text
C30_Witness ==
  /\ last = "parse_iso_date" /\ err # ""
  /\ arg.value = [year |-> 10000, month |-> 1, day |-> 1]
  /\ csv = <<"1", "0", "0", "0", "0", "-", "0", "1", "-", "0", "1">>

=============================================================================
